---- MODULE Spec2Model ----
(***************************************************************************)
(* A model of the yacari language toolchain of aurelilia/yacuri:           *)
(* parser (src/lang/src/parser), module compiler                           *)
(* (src/lang/src/compiler/module), IR (src/lang/src/compiler/ir) and the   *)
(* embedding API (src/lang/src/lib.rs).                                    *)
(*                                                                         *)
(* A source file is modelled as the token sequence the lexer yields for    *)
(* it; the byte offset `start` of a token is its position in the sequence. *)
(***************************************************************************)
EXTENDS Integers, Sequences, FiniteSets, TLC

(***************************************************************************)
(* Tokens (lexer.rs)                                                       *)
(***************************************************************************)
Tok(kind, lex) == [kind |-> kind, lex |-> lex]

\* Parser::advance's replacement token once the lexer is exhausted.
EofToken(start) == [kind |-> "Error", lex |-> "NUL", start |-> start]

\* The parser's `current` token when it stands at position p of toks.
Cur(toks, p) ==
    IF p <= Len(toks)
    THEN [kind |-> toks[p].kind, lex |-> toks[p].lex, start |-> p]
    ELSE EofToken(p)

\* A table that gives every infix operator the same binding power: the
\* grouping by precedence fails under it.
TKind_infix_binding_power_uniform(kind) ==
    IF kind \in {"Equal", "Or", "And", "BangEqual", "EqualEqual", "Less", "LessEqual",
                 "Greater", "GreaterEqual", "Plus", "Minus", "Star", "Slash", "Is"}
    THEN <<16, 15>>
    ELSE <<>>

TKind_infix_binding_power(kind) ==
    CASE kind = "Equal" -> <<6, 5>>
      [] kind = "Or" -> <<10, 9>>
      [] kind = "And" -> <<12, 11>>
      [] kind \in {"BangEqual", "EqualEqual"} -> <<14, 13>>
      [] kind \in {"Less", "LessEqual", "Greater", "GreaterEqual"} -> <<16, 15>>
      [] kind \in {"Plus", "Minus"} -> <<16, 15>>
      [] kind \in {"Star", "Slash"} -> <<18, 17>>
      [] kind = "Is" -> <<20, 19>>
      [] OTHER -> <<>>

TKind_prefix_binding_power(kind) ==
    IF kind \in {"Minus", "Bang"} THEN <<30>> ELSE <<>>

TKind_is_binary_logic(kind) ==
    kind \in {"EqualEqual", "BangEqual", "Less", "LessEqual", "Greater",
              "GreaterEqual", "And", "Or"}

(***************************************************************************)
(* Parser (parser/mod.rs).  Every parsing function takes the token         *)
(* sequence and the position of `current`, and returns Res<T> together     *)
(* with the position it leaves the parser at.                              *)
(*                                                                         *)
(* Here and below the statements of a function are local operators, the    *)
(* last statement first: on_x(.., x) is what the function does once        *)
(* `let x = ..` has given x, so that `f()?` reads                          *)
(* IF ~x.ok THEN x ELSE on_y(x, ..) applied to f's result.                 *)
(***************************************************************************)
Ok(p, v) == [ok |-> TRUE, pos |-> p, val |-> v]
Err(p, e) == [ok |-> FALSE, pos |-> p, err |-> e]

\* i64::from_str on a lexeme of decimal digits.
RECURSIVE i64_from_str(_)
i64_from_str(digits) ==
    IF digits = <<>> THEN 0
    ELSE 10 * i64_from_str(SubSeq(digits, 1, Len(digits) - 1)) + digits[Len(digits)]

Parser_is_at_end(toks, p) == Cur(toks, p).kind = "Error"

Parser_check(toks, p, kind) == Cur(toks, p).kind = kind

Parser_check_(toks, p, kinds) == \E kind \in kinds : Parser_check(toks, p, kind)

\* advance() returns the old `current` and moves to position p + 1.
Parser_advance(toks, p) == Ok(p + 1, Cur(toks, p))

\* matches() advances iff the kind fits; val tells whether it did.
Parser_matches(toks, p, kind) ==
    IF Parser_check(toks, p, kind) THEN Ok(p + 1, TRUE) ELSE Ok(p, FALSE)

Parser_consume(toks, p, kind) ==
    IF Parser_check(toks, p, kind)
    THEN Parser_advance(toks, p)
    ELSE Err(p, [kind |-> "E100", start |-> Cur(toks, p).start,
                 expected |-> kind, found |-> Cur(toks, p).kind])

RECURSIVE Parser_synchronize(_, _)
Parser_synchronize(toks, p) ==
    IF Parser_is_at_end(toks, p) THEN p
    ELSE IF Parser_advance(toks, p).val.kind = "Fun" THEN p + 1
    ELSE Parser_synchronize(toks, p + 1)

Parser_typ(toks, p) ==
    LET on_name(name) == IF ~name.ok THEN name ELSE Ok(name.pos, [name |-> name.val])
    IN  on_name(Parser_consume(toks, p, "Identifier"))

RECURSIVE Parser_expression(_, _)
RECURSIVE Parser_binary(_, _, _)
RECURSIVE Parser_binary_loop(_, _, _, _)
RECURSIVE Parser_unary(_, _)
RECURSIVE Parser_call(_, _)
RECURSIVE Parser_call_loop(_, _, _)
RECURSIVE Parser_call_args(_, _, _)
RECURSIVE Parser_primary(_, _)
RECURSIVE Parser_block(_, _)
RECURSIVE Parser_block_loop(_, _, _)
RECURSIVE Parser_if_expr(_, _)
RECURSIVE Parser_while_stmt(_, _)
RECURSIVE Parser_higher_expr(_, _)
RECURSIVE Parser_var_decl(_, _)

Parser_expression(toks, p) ==
    CASE Cur(toks, p).kind = "LeftBrace" -> Parser_block(toks, p)
      [] Cur(toks, p).kind = "If" -> Parser_if_expr(toks, p)
      [] Cur(toks, p).kind = "While" -> Parser_while_stmt(toks, p)
      [] OTHER -> Parser_binary(toks, p, 0)

Parser_higher_expr(toks, p) ==
    IF Parser_check_(toks, p, {"Var", "Val"})
    THEN Parser_var_decl(toks, p)
    ELSE Parser_expression(toks, p)

Parser_var_decl(toks, p) ==
    LET final_ == Parser_advance(toks, p).val.kind = "Val"
        on_value(name, value) ==
            IF ~value.ok THEN value ELSE
            Ok(value.pos, [start |-> name.val.start, e |-> "Variable",
                           final_ |-> final_, name |-> name.val, value |-> value.val])
        on_eq(name, eq) ==
            IF ~eq.ok THEN eq ELSE on_value(name, Parser_expression(toks, eq.pos))
        on_name(name) ==
            IF ~name.ok THEN name
            ELSE on_eq(name, Parser_consume(toks, name.pos, "Equal"))
    IN  on_name(Parser_consume(toks, p + 1, "Identifier"))

\* The `while` loop of block(): one higher_expr per iteration.
Parser_block_loop(toks, p, exprs) ==
    LET on_x(x) ==
            IF ~x.ok THEN x ELSE Parser_block_loop(toks, x.pos, Append(exprs, x.val))
    IN  IF ~Parser_is_at_end(toks, p) /\ ~Parser_check(toks, p, "RightBrace")
        THEN on_x(Parser_higher_expr(toks, p))
        ELSE Ok(p, exprs)

Parser_block(toks, p) ==
    LET brace == Parser_advance(toks, p)
        on_rb(exprs, rb) ==
            IF ~rb.ok THEN rb ELSE
            Ok(rb.pos, [start |-> brace.val.start, e |-> "Block", exprs |-> exprs.val])
        on_exprs(exprs) ==
            IF ~exprs.ok THEN exprs
            ELSE on_rb(exprs, Parser_consume(toks, exprs.pos, "RightBrace"))
    IN  on_exprs(Parser_block_loop(toks, brace.pos, <<>>))

Parser_if_expr(toks, p) ==
    LET start == Parser_advance(toks, p).val.start
        on_els(cond, then, els) ==
            IF ~els.ok THEN els ELSE
            Ok(els.pos, [start |-> start, e |-> "If", cond |-> cond.val,
                         then |-> then.val, els |-> <<els.val>>])
        on_m(cond, then, m) ==
            IF ~m.val
            THEN Ok(m.pos, [start |-> start, e |-> "If", cond |-> cond.val,
                            then |-> then.val, els |-> <<>>])
            ELSE on_els(cond, then, Parser_expression(toks, m.pos))
        on_then(cond, then) ==
            IF ~then.ok THEN then
            ELSE on_m(cond, then, Parser_matches(toks, then.pos, "Else"))
        on_rp(cond, rp) ==
            IF ~rp.ok THEN rp ELSE on_then(cond, Parser_expression(toks, rp.pos))
        on_cond(cond) ==
            IF ~cond.ok THEN cond
            ELSE on_rp(cond, Parser_consume(toks, cond.pos, "RightParen"))
        on_lp(lp) ==
            IF ~lp.ok THEN lp ELSE on_cond(Parser_expression(toks, lp.pos))
    IN  on_lp(Parser_consume(toks, p + 1, "LeftParen"))

Parser_while_stmt(toks, p) ==
    LET start == Parser_advance(toks, p).val.start
        on_body(cond, body) ==
            IF ~body.ok THEN body ELSE
            Ok(body.pos, [start |-> start, e |-> "While", cond |-> cond.val,
                          body |-> body.val])
        on_rp(cond, rp) ==
            IF ~rp.ok THEN rp ELSE on_body(cond, Parser_expression(toks, rp.pos))
        on_cond(cond) ==
            IF ~cond.ok THEN cond
            ELSE on_rp(cond, Parser_consume(toks, cond.pos, "RightParen"))
        on_lp(lp) ==
            IF ~lp.ok THEN lp ELSE on_cond(Parser_expression(toks, lp.pos))
    IN  on_lp(Parser_consume(toks, p + 1, "LeftParen"))

\* The `while let` loop of binary(): expr is the left operand built so far.
Parser_binary_loop(toks, p, expr, minimum_binding_power) ==
    LET on_right(op, right) ==
            IF ~right.ok THEN right ELSE
            Parser_binary_loop(toks, right.pos,
                [start |-> expr.start, e |-> "Binary", left |-> expr,
                 op |-> op.val, right |-> right.val],
                minimum_binding_power)
        on_op(bp, op) == on_right(op, Parser_binary(toks, op.pos, bp[2]))
        on_bp(bp) ==
            IF bp = <<>> THEN Ok(p, expr)
            ELSE IF bp[1] < minimum_binding_power THEN Ok(p, expr)
            ELSE on_op(bp, Parser_advance(toks, p))
    IN  on_bp(TKind_infix_binding_power(Cur(toks, p).kind))

Parser_binary(toks, p, minimum_binding_power) ==
    LET on_expr(expr) ==
            IF ~expr.ok THEN expr
            ELSE Parser_binary_loop(toks, expr.pos, expr.val, minimum_binding_power)
    IN  on_expr(Parser_unary(toks, p))

Parser_unary(toks, p) ==
    LET on_right(op, right) ==
            IF ~right.ok THEN right ELSE
            Ok(right.pos, [start |-> op.val.start, e |-> "Unary",
                           op |-> op.val, right |-> right.val])
        on_op(rbp, op) == on_right(op, Parser_binary(toks, op.pos, rbp[1]))
        on_rbp(rbp) ==
            IF rbp # <<>> THEN on_op(rbp, Parser_advance(toks, p))
            ELSE Parser_call(toks, p)
    IN  on_rbp(TKind_prefix_binding_power(Cur(toks, p).kind))

\* The argument loop of call(): one expression, then a comma or the end.
Parser_call_args(toks, p, args) ==
    LET on_m(a, m) ==
            IF m.val THEN Parser_call_args(toks, m.pos, Append(args, a.val))
            ELSE Ok(m.pos, Append(args, a.val))
        on_a(a) ==
            IF ~a.ok THEN a ELSE on_m(a, Parser_matches(toks, a.pos, "Comma"))
    IN  on_a(Parser_expression(toks, p))

Parser_call_loop(toks, p, expr) ==
    LET on_rp(args, rp) ==
            IF ~rp.ok THEN rp ELSE
            Parser_call_loop(toks, rp.pos,
                [start |-> expr.start, e |-> "Call", callee |-> expr,
                 args |-> args.val])
        on_args(args) ==
            IF ~args.ok THEN args
            ELSE on_rp(args, Parser_consume(toks, args.pos, "RightParen"))
    IN  IF Cur(toks, p).kind = "LeftParen"
        THEN on_args(IF ~Parser_check(toks, p + 1, "RightParen")
                     THEN Parser_call_args(toks, p + 1, <<>>)
                     ELSE Ok(p + 1, <<>>))
        ELSE Ok(p, expr)

Parser_call(toks, p) ==
    LET on_expr(expr) ==
            IF ~expr.ok THEN expr ELSE Parser_call_loop(toks, expr.pos, expr.val)
    IN  on_expr(Parser_primary(toks, p))

Parser_primary(toks, p) ==
    LET c == Cur(toks, p)
        on_rp(expr, rp) == IF ~rp.ok THEN rp ELSE Ok(rp.pos, expr.val)
        on_expr(expr) ==
            IF ~expr.ok THEN expr
            ELSE on_rp(expr, Parser_consume(toks, expr.pos, "RightParen"))
    IN
    CASE c.kind = "False" ->
            Ok(p + 1, [start |-> c.start, e |-> "Literal",
                       lit |-> [k |-> "Bool", v |-> FALSE]])
      [] c.kind = "True" ->
            Ok(p + 1, [start |-> c.start, e |-> "Literal",
                       lit |-> [k |-> "Bool", v |-> TRUE]])
      [] c.kind = "String" ->
            Ok(p + 1, [start |-> c.start, e |-> "Literal",
                       lit |-> [k |-> "String", v |-> c.lex]])
      [] c.kind = "Int" ->
            Ok(p + 1, [start |-> c.start, e |-> "Literal",
                       lit |-> [k |-> "Int", v |-> i64_from_str(c.lex)]])
      [] c.kind = "Float" ->
            Ok(p + 1, [start |-> c.start, e |-> "Literal",
                       lit |-> [k |-> "Float", v |-> c.lex]])
      [] c.kind = "Identifier" ->
            Ok(p + 1, [start |-> c.start, e |-> "Identifier", tok |-> c])
      [] c.kind = "LeftParen" -> on_expr(Parser_expression(toks, p + 1))
      [] OTHER -> Err(p, [kind |-> "E101", start |-> c.start])

\* The parameter loop of function().
RECURSIVE Parser_function_params(_, _, _)
Parser_function_params(toks, p, params) ==
    LET on_m(ps, m) ==
            IF m.val THEN Parser_function_params(toks, m.pos, ps) ELSE Ok(m.pos, ps)
        on_ty(name, ty) ==
            IF ~ty.ok THEN ty ELSE
            on_m(Append(params, [name |-> name.val.lex, ty |-> ty.val]),
                 Parser_matches(toks, ty.pos, "Comma"))
        on_colon(name, colon) ==
            IF ~colon.ok THEN colon ELSE on_ty(name, Parser_typ(toks, colon.pos))
        on_name(name) ==
            IF ~name.ok THEN name
            ELSE on_colon(name, Parser_consume(toks, name.pos, "Colon"))
    IN  on_name(Parser_consume(toks, p, "Identifier"))

Parser_function(toks, p, is_ext) ==
    LET some(r) == IF r.ok THEN Ok(r.pos, <<r.val>>) ELSE r
        on_body(name, params, ret_type, body) ==
            IF ~body.ok THEN body ELSE
            Ok(body.pos, [name |-> name.val, params |-> params.val,
                          ret_type |-> ret_type.val, body |-> body.val])
        on_ret_type(name, params, ret_type) ==
            IF ~ret_type.ok THEN ret_type ELSE
            on_body(name, params, ret_type,
                    IF ~is_ext
                    THEN some(Parser_expression(toks, ret_type.pos))
                    ELSE Ok(ret_type.pos, <<>>))
        on_arrow(name, params, arrow) ==
            on_ret_type(name, params,
                        IF arrow.val
                        THEN some(Parser_typ(toks, arrow.pos))
                        ELSE Ok(arrow.pos, <<>>))
        on_rp(name, params, rp) ==
            IF ~rp.ok THEN rp
            ELSE on_arrow(name, params, Parser_matches(toks, rp.pos, "Arrow"))
        on_params(name, params) ==
            IF ~params.ok THEN params
            ELSE on_rp(name, params, Parser_consume(toks, params.pos, "RightParen"))
        on_lp(name, lp) ==
            IF ~lp.ok THEN lp ELSE
            on_params(name, IF ~Parser_check(toks, lp.pos, "RightParen")
                            THEN Parser_function_params(toks, lp.pos, <<>>)
                            ELSE Ok(lp.pos, <<>>))
        on_name(name) ==
            IF ~name.ok THEN name
            ELSE on_lp(name, Parser_consume(toks, name.pos, "LeftParen"))
    IN  on_name(Parser_consume(toks, p, "Identifier"))

Parser_member(toks, p, mutable) ==
    LET on_ty(name, ty) ==
            IF ~ty.ok THEN ty ELSE
            Ok(ty.pos, [name |-> name.val, ty |-> ty.val, mutable |-> mutable])
        on_colon(name, colon) ==
            IF ~colon.ok THEN colon ELSE on_ty(name, Parser_typ(toks, colon.pos))
        on_name(name) ==
            IF ~name.ok THEN name
            ELSE on_colon(name, Parser_consume(toks, name.pos, "Colon"))
    IN  on_name(Parser_consume(toks, p, "Identifier"))

\* The `while !self.check(RightBrace)` loop of class().
RECURSIVE Parser_class_loop(_, _, _)
Parser_class_loop(toks, p, cls) ==
    LET k == Parser_advance(toks, p).val.kind
        on_member(m) ==
            IF ~m.ok THEN m ELSE
            Parser_class_loop(toks, m.pos, [cls EXCEPT !.members = Append(@, m.val)])
        on_method(f) ==
            IF ~f.ok THEN f ELSE
            Parser_class_loop(toks, f.pos, [cls EXCEPT !.methods = Append(@, f.val)])
        on_function(f) ==
            IF ~f.ok THEN f ELSE
            Parser_class_loop(toks, f.pos, [cls EXCEPT !.functions = Append(@, f.val)])
    IN
    IF Parser_check(toks, p, "RightBrace") THEN Ok(p, cls)
    ELSE
    CASE k \in {"Val", "Var"} -> on_member(Parser_member(toks, p + 1, k = "Var"))
      [] k = "Fun" -> on_method(Parser_function(toks, p + 1, FALSE))
      [] k = "Static" /\ Parser_check(toks, p + 1, "Fun") ->
            on_function(Parser_function(toks, p + 2, FALSE))
      [] OTHER -> Err(p + 1, [kind |-> "E102", start |-> Cur(toks, p + 1).start])

Parser_class(toks, p) ==
    LET on_rb(body, rb) == IF ~rb.ok THEN rb ELSE Ok(rb.pos, body.val)
        on_body(body) ==
            IF ~body.ok THEN body
            ELSE on_rb(body, Parser_consume(toks, body.pos, "RightBrace"))
        on_lb(name, lb) ==
            IF ~lb.ok THEN lb ELSE
            on_body(Parser_class_loop(toks, lb.pos,
                        [name |-> name.val, members |-> <<>>, methods |-> <<>>,
                         functions |-> <<>>]))
        on_name(name) ==
            IF ~name.ok THEN name
            ELSE on_lb(name, Parser_consume(toks, name.pos, "LeftBrace"))
    IN  on_name(Parser_consume(toks, p, "Identifier"))

(***************************************************************************)
(* IR (compiler/ir/mod.rs)                                                 *)
(***************************************************************************)
\* enum Type.  FuncRef and ClassRef are (module handle, index); the handle
\* is the position of the module among the modules being compiled.
TVoid == [t |-> "Void"]
TPoison == [t |-> "Poison"]
TBool == [t |-> "Bool"]
TI64 == [t |-> "I64"]
TF64 == [t |-> "F64"]
TFunction(fn_ref) == [t |-> "Function", ref |-> fn_ref]
TClass(cls_ref) == [t |-> "Class", ref |-> cls_ref]
\* Not a Type: the outcome of typ() when get_type reaches unimplemented!()
\* or panic!().
TPanic == [t |-> "panic"]

FuncRef(module, index) == [module |-> module, index |-> index]
ClassRef(module, index) == [module |-> module, index |-> index]

Type_is_int(ty) == ty = TI64 \/ ty = TPoison

Type_allow_math(ty) == ty = TI64 \/ ty = TF64 \/ ty = TPoison

Type_allow_logic(ty) == ty = TBool \/ ty = TPoison

Type_allow_assignment(ty) == ty # TVoid

\* impl Display for Type: the Debug name of the variant.
Type_to_string(ty) == ty.t

VarStore(ty, name, index, mutable) ==
    [ty |-> ty, name |-> name, index |-> index, mutable |-> mutable]

\* Expr { inner: Box<IExpr>, ty: RefCell<Option<Type>> }: inner is the
\* IExpr variant, ty the cache, <<>> for None and <<T>> for Some(T).
Expr_new(inner) == [inner |-> inner, ty |-> <<>>]

Expr_with_typ(inner, typ) == [inner |-> inner, ty |-> <<typ>>]

Constant_from_literal(lit) == [k |-> lit.k, v |-> lit.v]

Expr_zero == Expr_new([i |-> "Constant", constant |-> [k |-> "Int", v |-> 0]])

Expr_poison == Expr_new([i |-> "Poison"])

Expr_binary(left, op, right) ==
    Expr_new([i |-> "Binary", left |-> left, op |-> op, right |-> right])

Expr_constant(lit) == Expr_new([i |-> "Constant", constant |-> lit])

Expr_block(exprs) == Expr_new([i |-> "Block", exprs |-> exprs])

Expr_while_(cond, body) == Expr_new([i |-> "While", cond |-> cond, body |-> body])

Expr_local(variable) ==
    Expr_new([i |-> "Variable", index |-> variable.index, typ |-> variable.ty])

Expr_assign(store, value) ==
    Expr_new([i |-> "Assign", store |-> store, value |-> value])

Expr_assign_local(variable, value) == Expr_assign(Expr_local(variable), value)

Expr_call(callee, args, ret_type) ==
    Expr_with_typ([i |-> "Call", callee |-> callee, args |-> args], ret_type)

Expr_assignable(e) == e.inner.i = "Variable"

\* typ() and get_type() return the type together with the node as typ()
\* leaves it: the caches it filled on the way are part of the result.
RECURSIVE Expr_typ(_)
Expr_get_type(e) ==
    LET n == e.inner
        of_left(l) == [ty |-> l.ty, e |-> [e EXCEPT !.inner.left = l.e]]
        of_last(l) == [ty |-> l.ty, e |-> [e EXCEPT !.inner.exprs[Len(n.exprs)] = l.e]]
        of_then(l) == [ty |-> l.ty, e |-> [e EXCEPT !.inner.then = l.e]]
        of_value(l) == [ty |-> l.ty, e |-> [e EXCEPT !.inner.value = l.e]]
    IN
    CASE n.i = "Poison" -> [ty |-> TPoison, e |-> e]
      [] n.i = "Binary" /\ TKind_is_binary_logic(n.op.kind) -> [ty |-> TBool, e |-> e]
      [] n.i = "Binary" -> of_left(Expr_typ(n.left))
      [] n.i = "Constant" /\ n.constant.k = "Bool" -> [ty |-> TBool, e |-> e]
      [] n.i = "Constant" /\ n.constant.k = "Int" -> [ty |-> TI64, e |-> e]
      [] n.i = "Constant" /\ n.constant.k = "Float" -> [ty |-> TF64, e |-> e]
      [] n.i = "Constant" /\ n.constant.k = "String" -> [ty |-> TPanic, e |-> e]
      [] n.i = "Constant" /\ n.constant.k = "Function" ->
            [ty |-> TFunction(n.constant.v), e |-> e]
      [] n.i = "Constant" /\ n.constant.k = "Class" ->
            [ty |-> TClass(n.constant.v), e |-> e]
      [] n.i = "Block" ->
            IF n.exprs = <<>> THEN [ty |-> TVoid, e |-> e]
            ELSE of_last(Expr_typ(n.exprs[Len(n.exprs)]))
      [] n.i = "If" /\ ~n.phi -> [ty |-> TVoid, e |-> e]
      [] n.i = "If" -> of_then(Expr_typ(n.then))
      [] n.i = "While" -> [ty |-> TVoid, e |-> e]
      [] n.i = "Variable" -> [ty |-> n.typ, e |-> e]
      [] n.i = "Assign" -> of_value(Expr_typ(n.value))
      [] n.i = "Call" -> [ty |-> TPanic, e |-> e]

\* A typ() that computes the type and leaves the cache empty.
Expr_typ_uncached(e) ==
    IF e.ty # <<>> THEN [ty |-> e.ty[1], e |-> e] ELSE Expr_get_type(e)

Expr_typ(e) ==
    LET cached(g) ==
            IF g.ty = TPanic THEN g ELSE [ty |-> g.ty, e |-> [g.e EXCEPT !.ty = <<g.ty>>]]
    IN  IF e.ty # <<>> THEN [ty |-> e.ty[1], e |-> e]
        ELSE cached(Expr_get_type(e))

\* Expr::if_: els is an Option, <<>> or <<e>>.  panic tells that one of
\* the typ() calls panicked.
Expr_if_(cond, then, els) ==
    LET node(t, s) ==
            [panic |-> t.ty = TPanic \/ s.ty = TPanic,
             e |-> Expr_new([i |-> "If",
                             phi |-> els # <<>> /\ t.ty = s.ty,
                             cond |-> cond, then |-> t.e, els |-> s.e])]
    IN  node(IF els # <<>> THEN Expr_typ(then) ELSE [ty |-> TVoid, e |-> then],
             IF els # <<>> THEN Expr_typ(els[1]) ELSE [ty |-> TVoid, e |-> Expr_zero])

\* Function::add_local on the locals vector: the vector after the push;
\* the returned reference is its last element.
Function_add_local(locals, name, ty, mutable) ==
    Append(locals, VarStore(ty, name, Len(locals), mutable))

(***************************************************************************)
(* Expression compiler (compiler/module/expr_compiler.rs).                 *)
(*                                                                         *)
(* The compiler's state st is                                              *)
(*   environments  the stack of Environments; an Environment is a sequence *)
(*                 of bindings [name, ref] with at most one binding per    *)
(*                 name, ref being the &VarStore: the vector it points     *)
(*                 into ("params" or "locals") and the position there;     *)
(*   locals        function.locals, which add_local grows;                 *)
(*   err_calls     history: the arguments of every call of err(), whose    *)
(*                 body leaves the module's error list untouched (with an  *)
(*                 E502, which has no fields, the history also keeps the   *)
(*                 type of the condition that was tested, as `on`);        *)
(*   panic         "" or the panic that ended the compilation.             *)
(* ctx is what the compiler reads and never writes: the module handle, the *)
(* module's funcs and the params of the function being compiled.           *)
(***************************************************************************)
Environment_insert(env, name, ref) ==
    Append(SelectSeq(env, LAMBDA b : b.name # name), [name |-> name, ref |-> ref])

Environment_get(env, name) ==
    LET hits == SelectSeq(env, LAMBDA b : b.name = name) IN
    IF hits = <<>> THEN <<>> ELSE <<hits[1].ref>>

\* The VarStore a reference points at.
Deref(ref, st, ctx) ==
    IF ref.vec = "params" THEN ctx.params[ref.pos] ELSE st.locals[ref.pos]

RECURSIVE ExprCompiler_new_env(_, _)
ExprCompiler_new_env(params, n) ==
    IF n = 0 THEN <<>>
    ELSE Environment_insert(ExprCompiler_new_env(params, n - 1), params[n].name,
                            [vec |-> "params", pos |-> n])

ExprCompiler_new(function) ==
    [environments |-> <<ExprCompiler_new_env(function.params, Len(function.params))>>,
     locals |-> function.locals,
     err_calls |-> <<>>,
     panic |-> ""]

\* fn err(&self, _pos, _err) {}: nothing but the history changes.
ExprCompiler_err(st, pos, err) ==
    [st EXCEPT !.err_calls = Append(@, [start |-> pos, kind |-> err])]

RECURSIVE ExprCompiler_find_local_from(_, _, _)
ExprCompiler_find_local_from(environments, n, name) ==
    IF n = 0 THEN <<>>
    ELSE LET hit == Environment_get(environments[n], name) IN
         IF hit # <<>> THEN hit
         ELSE ExprCompiler_find_local_from(environments, n - 1, name)

ExprCompiler_find_local(st, name) ==
    ExprCompiler_find_local_from(st.environments, Len(st.environments), name)

ExprCompiler_find_function(ctx, name) ==
    LET hits == {n \in 1..Len(ctx.funcs) : ctx.funcs[n].name = name} IN
    IF hits = {} THEN <<>>
    ELSE <<FuncRef(ctx.module, (CHOOSE n \in hits : \A m \in hits : n <= m) - 1)>>

ExprCompiler_add_to_scope(st, ref, var) ==
    [st EXCEPT !.environments[Len(st.environments)] =
                    Environment_insert(@, var.name, ref)]

ExprCompiler_begin_scope(st) ==
    [st EXCEPT !.environments = Append(@, <<>>)]

\* An end_scope that pops nothing.
ExprCompiler_end_scope_kept(st) == st

ExprCompiler_end_scope(st) ==
    [st EXCEPT !.environments = SubSeq(@, 1, Len(@) - 1)]

Panicked(st, msg) == [e |-> Expr_poison, st |-> [st EXCEPT !.panic = msg]]

\* The E508 loop of the Call arm over args.iter().zip(func.params.iter()):
\* every arg.typ() fills that argument's cache.
RECURSIVE ExprCompiler_check_args(_, _, _, _, _)
ExprCompiler_check_args(args, params, n, st, start) ==
    LET on_a(a) ==
            IF a.ty = TPanic
            THEN [args |-> args, st |-> [st EXCEPT !.panic = "not implemented"]]
            ELSE ExprCompiler_check_args(
                     [args EXCEPT ![n] = a.e], params, n + 1,
                     IF a.ty # params[n].ty
                     THEN ExprCompiler_err(st, start,
                              [code |-> "E508", expected |-> Type_to_string(params[n].ty),
                               found |-> Type_to_string(a.ty), pos |-> n - 1])
                     ELSE st,
                     start)
    IN  IF n > Len(args) \/ n > Len(params) THEN [args |-> args, st |-> st]
        ELSE on_a(Expr_typ(args[n]))

RECURSIVE ExprCompiler_expr(_, _, _)
\* exprs.iter().map(|e| self.expr(e)).collect()
RECURSIVE ExprCompiler_exprs(_, _, _, _)
ExprCompiler_exprs(exprs, n, acc, ctx) ==
    LET on_x(x) ==
            ExprCompiler_exprs(exprs, n + 1, [es |-> Append(acc.es, x.e), st |-> x.st], ctx)
    IN  IF n > Len(exprs) \/ acc.st.panic # "" THEN acc
        ELSE on_x(ExprCompiler_expr(exprs[n], acc.st, ctx))

ExprCompiler_expr_Binary(expr, st, ctx) ==
    LET op == expr.op
        logic == TKind_is_binary_logic(op.kind)
        check(r, lt, rt) ==
            IF lt.ty = TPanic \/ rt.ty = TPanic THEN Panicked(r.st, "not implemented") ELSE
            CASE lt.ty # rt.ty ->
                    [e |-> Expr_binary(lt.e, op, rt.e),
                     st |-> ExprCompiler_err(r.st, op.start,
                                [code |-> "E500", left |-> Type_to_string(lt.ty),
                                 right |-> Type_to_string(rt.ty)])]
              [] lt.ty = rt.ty /\ op.kind = "Equal" ->
                    [e |-> Expr_assign(lt.e, rt.e),
                     st |-> IF ~Expr_assignable(lt.e)
                            THEN ExprCompiler_err(r.st, op.start, [code |-> "E505"])
                            ELSE r.st]
              [] /\ lt.ty = rt.ty /\ op.kind # "Equal"
                 /\ \/ logic /\ ~Type_allow_logic(lt.ty)
                    \/ ~logic /\ ~Type_allow_math(lt.ty) ->
                    [e |-> Expr_binary(lt.e, op, rt.e),
                     st |-> ExprCompiler_err(r.st, op.start,
                                [code |-> "E501", op |-> op.lex,
                                 ty |-> Type_to_string(lt.ty)])]
              [] OTHER -> [e |-> Expr_binary(lt.e, op, rt.e), st |-> r.st]
        on_r(l, r) ==
            IF r.st.panic # "" THEN r ELSE check(r, Expr_typ(l.e), Expr_typ(r.e))
        on_l(l) ==
            IF l.st.panic # "" THEN l ELSE on_r(l, ExprCompiler_expr(expr.right, l.st, ctx))
    IN  on_l(ExprCompiler_expr(expr.left, st, ctx))

ExprCompiler_expr_If(expr, st, ctx) ==
    LET on_node(els, node) ==
            IF node.panic THEN Panicked(els.st, "not implemented")
            ELSE [e |-> node.e, st |-> els.st]
        on_els(ct, then, els) ==
            IF els.st.panic # "" THEN els ELSE
            on_node(els, Expr_if_(ct.e, then.e,
                                  IF expr.els # <<>> THEN <<els.e>> ELSE <<>>))
        on_then(ct, then) ==
            IF then.st.panic # "" THEN then ELSE
            on_els(ct, then, IF expr.els # <<>>
                             THEN ExprCompiler_expr(expr.els[1], then.st, ctx)
                             ELSE [e |-> Expr_poison, st |-> then.st])
        on_ct(c, ct) ==
            IF ct.ty = TPanic THEN Panicked(c.st, "not implemented") ELSE
            on_then(ct, ExprCompiler_expr(expr.then,
                            IF ct.ty # TBool
                            THEN ExprCompiler_err(c.st, expr.cond.start,
                                     [code |-> "E502", on |-> Type_to_string(ct.ty)])
                            ELSE c.st,
                            ctx))
        on_c(c) ==
            IF c.st.panic # "" THEN c ELSE on_ct(c, Expr_typ(c.e))
    IN  on_c(ExprCompiler_expr(expr.cond, st, ctx))

ExprCompiler_expr_While(expr, st, ctx) ==
    LET on_body(ct, body) ==
            IF body.st.panic # "" THEN body
            ELSE [e |-> Expr_while_(ct.e, body.e), st |-> body.st]
        on_ct(c, ct) ==
            IF ct.ty = TPanic THEN Panicked(c.st, "not implemented") ELSE
            on_body(ct, ExprCompiler_expr(expr.body,
                            IF ct.ty # TBool
                            THEN ExprCompiler_err(c.st, expr.cond.start,
                                     [code |-> "E502", on |-> Type_to_string(ct.ty)])
                            ELSE c.st,
                            ctx))
        on_c(c) ==
            IF c.st.panic # "" THEN c ELSE on_ct(c, Expr_typ(c.e))
    IN  on_c(ExprCompiler_expr(expr.cond, st, ctx))

ExprCompiler_expr_Identifier(expr, st, ctx) ==
    LET ident == expr.tok
        on_func(func) ==
            IF func # <<>>
            THEN [e |-> Expr_constant([k |-> "Function", v |-> func[1]]), st |-> st]
            ELSE [e |-> Expr_poison,
                  st |-> ExprCompiler_err(st, ident.start,
                             [code |-> "E503", name |-> ident.lex])]
        on_local(local) ==
            IF local # <<>> THEN [e |-> Expr_local(Deref(local[1], st, ctx)), st |-> st]
            ELSE on_func(ExprCompiler_find_function(ctx, ident.lex))
    IN  on_local(ExprCompiler_find_local(st, ident.lex))

ExprCompiler_expr_Variable(expr, st, ctx) ==
    LET on_locals(vt, st1, locals) ==
            [e |-> Expr_assign_local(locals[Len(locals)], vt.e),
             st |-> ExprCompiler_add_to_scope([st1 EXCEPT !.locals = locals],
                        [vec |-> "locals", pos |-> Len(locals)], locals[Len(locals)])]
        on_st1(vt, st1) ==
            on_locals(vt, st1,
                      Function_add_local(st1.locals, expr.name.lex, vt.ty, ~expr.final_))
        on_vt(v, vt) ==
            IF vt.ty = TPanic THEN Panicked(v.st, "not implemented") ELSE
            on_st1(vt, IF ~Type_allow_assignment(vt.ty)
                       THEN ExprCompiler_err(v.st, expr.name.start,
                                [code |-> "E504", ty |-> Type_to_string(vt.ty)])
                       ELSE v.st)
        on_v(v) ==
            IF v.st.panic # "" THEN v ELSE on_vt(v, Expr_typ(v.e))
    IN  on_v(ExprCompiler_expr(expr.value, st, ctx))

ExprCompiler_expr_Call(expr, st, ctx) ==
    LET start == expr.callee.start
        on_chk(ct, func, chk) ==
            IF chk.st.panic # "" THEN Panicked(chk.st, chk.st.panic)
            ELSE [e |-> Expr_call(ct.e, chk.args, func.ret_type), st |-> chk.st]
        on_as(ct, func, as) ==
            IF as.st.panic # "" THEN Panicked(as.st, as.st.panic) ELSE
            on_chk(ct, func,
                   ExprCompiler_check_args(as.es, func.params, 1,
                       IF Len(as.es) # Len(func.params)
                       THEN ExprCompiler_err(as.st, start,
                                [code |-> "E507", expected |-> Len(func.params),
                                 found |-> Len(as.es)])
                       ELSE as.st,
                       start))
        on_ct(c, ct) ==
            IF ct.ty = TPanic THEN Panicked(c.st, "not implemented") ELSE
            IF ct.ty.t # "Function"
            THEN [e |-> Expr_poison,
                  st |-> ExprCompiler_err(c.st, start,
                             [code |-> "E506", ty |-> Type_to_string(ct.ty)])]
            ELSE on_as(ct, ctx.funcs[ct.ty.ref.index + 1],
                       ExprCompiler_exprs(expr.args, 1, [es |-> <<>>, st |-> c.st], ctx))
        on_c(c) ==
            IF c.st.panic # "" THEN c ELSE on_ct(c, Expr_typ(c.e))
    IN  on_c(ExprCompiler_expr(expr.callee, st, ctx))

ExprCompiler_expr(expr, st, ctx) ==
    LET on_xs(xs) ==
            IF xs.st.panic # "" THEN Panicked(xs.st, xs.st.panic)
            ELSE [e |-> Expr_block(xs.es), st |-> ExprCompiler_end_scope(xs.st)]
    IN
    CASE expr.e = "Literal" ->
            [e |-> Expr_constant(Constant_from_literal(expr.lit)), st |-> st]
      [] expr.e = "Binary" -> ExprCompiler_expr_Binary(expr, st, ctx)
      [] expr.e = "Block" ->
            on_xs(ExprCompiler_exprs(expr.exprs, 1,
                      [es |-> <<>>, st |-> ExprCompiler_begin_scope(st)], ctx))
      [] expr.e = "If" -> ExprCompiler_expr_If(expr, st, ctx)
      [] expr.e = "While" -> ExprCompiler_expr_While(expr, st, ctx)
      [] expr.e = "Identifier" -> ExprCompiler_expr_Identifier(expr, st, ctx)
      [] expr.e = "Variable" -> ExprCompiler_expr_Variable(expr, st, ctx)
      [] expr.e = "Call" -> ExprCompiler_expr_Call(expr, st, ctx)
      [] OTHER -> Panicked(st, "i can't compile this")

(***************************************************************************)
(* Module compiler (compiler/module/mod.rs, resolver.rs, passes/mod.rs).   *)
(*                                                                         *)
(* A pass returns the module as it leaves it and its outcome out:          *)
(* [res |-> "Ok"], [res |-> "Err", err |-> e] for an early `?` return, or  *)
(* [res |-> "panic", msg |-> m].                                           *)
(***************************************************************************)
OutOk == [res |-> "Ok"]
OutErr(e) == [res |-> "Err", err |-> e]
OutPanic(m) == [res |-> "panic", msg |-> m]

Module_from_ast(ast) ==
    [funcs |-> <<>>, classes |-> <<>>, reserved_names |-> {}, ast |-> ast]

ModuleCompiler_new(ast) == [module |-> Module_from_ast(ast), errors |-> <<>>]

\* HashSet::insert returns false when the name is already in the set.
Module_try_reserve_name(module, name, pos) ==
    IF name \in module.reserved_names
    THEN [module |-> module, out |-> OutErr([kind |-> "E201", start |-> pos, name |-> name])]
    ELSE [module |-> [module EXCEPT !.reserved_names = @ \cup {name}], out |-> OutOk]

\* resolve_ty_name: any name but the three primitive ones takes
\* self.module.borrow_mut(), which panics while a shared borrow of the
\* module's RefCell is alive (borrowed).
ModuleCompiler_resolve_ty_name(module, handle, borrowed, name, position) ==
    LET hits == {n \in 1..Len(module.classes) : module.classes[n].name = name} IN
    CASE name = "bool" -> [out |-> OutOk, ty |-> TBool]
      [] name = "i64" -> [out |-> OutOk, ty |-> TI64]
      [] name = "f64" -> [out |-> OutOk, ty |-> TF64]
      [] OTHER ->
            IF borrowed THEN [out |-> OutPanic("already borrowed: BorrowMutError")]
            ELSE IF hits = {}
                 THEN [out |-> OutErr([kind |-> "E200", start |-> position, name |-> name])]
                 ELSE [out |-> OutOk,
                       ty |-> TClass(ClassRef(handle,
                                  (CHOOSE n \in hits : \A m \in hits : n <= m) - 1))]

ModuleCompiler_resolve_ty(module, handle, borrowed, ty) ==
    ModuleCompiler_resolve_ty_name(module, handle, borrowed, ty.name.lex, ty.name.start)

\* The params iterator of declare_function, collected into Res<SmallVec>:
\* it stops at the first parameter whose type does not resolve.
RECURSIVE ModuleCompiler_declare_params(_, _, _, _, _, _)
ModuleCompiler_declare_params(module, handle, borrowed, params, n, acc) ==
    LET on_ty(ty) ==
            IF ty.out # OutOk THEN [out |-> ty.out]
            ELSE ModuleCompiler_declare_params(module, handle, borrowed, params, n + 1,
                     Append(acc, VarStore(ty.ty, params[n].name, n - 1, FALSE)))
    IN  IF n > Len(params) THEN [out |-> OutOk, params |-> acc]
        ELSE on_ty(ModuleCompiler_resolve_ty(module, handle, borrowed, params[n].ty))

ModuleCompiler_declare_function(module, handle, borrowed, func) ==
    LET on_ret_type(params, ret_type) ==
            IF ret_type.out # OutOk THEN [module |-> module, out |-> ret_type.out] ELSE
            IF borrowed
            THEN [module |-> module, out |-> OutPanic("already borrowed: BorrowMutError")]
            ELSE [module |-> [module EXCEPT !.funcs = Append(@,
                                 [name |-> func.name.lex,
                                  body |-> Expr_poison,
                                  params |-> params.params,
                                  locals |-> <<>>,
                                  ret_type |-> ret_type.ty,
                                  ir |-> <<>>,
                                  ast |-> func])],
                  out |-> OutOk]
        on_params(params) ==
            IF params.out # OutOk THEN [module |-> module, out |-> params.out] ELSE
            on_ret_type(params,
                        IF func.ret_type # <<>>
                        THEN ModuleCompiler_resolve_ty(module, handle, borrowed,
                                                       func.ret_type[1])
                        ELSE [out |-> OutOk, ty |-> TVoid])
    IN  on_params(ModuleCompiler_declare_params(module, handle, borrowed,
                                                func.params, 1, <<>>))

RECURSIVE ModuleCompiler_declare_classes_loop(_, _, _)
ModuleCompiler_declare_classes_loop(module, ast_cls, n) ==
    LET on_r(cls, r) ==
            IF r.out # OutOk THEN r
            ELSE ModuleCompiler_declare_classes_loop(
                     [r.module EXCEPT !.classes = Append(@,
                         [name |-> cls.name.lex, content |-> <<>>, ast |-> cls])],
                     ast_cls, n + 1)
        on_cls(cls) ==
            on_r(cls, Module_try_reserve_name(module, cls.name.lex, cls.name.start))
    IN  IF n > Len(ast_cls) THEN [module |-> module, out |-> OutOk]
        ELSE on_cls(ast_cls[n])

ModuleCompiler_declare_classes(module) ==
    ModuleCompiler_declare_classes_loop([module EXCEPT !.ast.classes = <<>>],
                                        module.ast.classes, 1)

RECURSIVE ModuleCompiler_declare_functions_loop(_, _, _, _)
ModuleCompiler_declare_functions_loop(module, handle, ast_fns, n) ==
    LET on_d(d) ==
            IF d.out # OutOk THEN d
            ELSE ModuleCompiler_declare_functions_loop(d.module, handle, ast_fns, n + 1)
        on_r(func, r) ==
            IF r.out # OutOk THEN r
            ELSE on_d(ModuleCompiler_declare_function(r.module, handle, FALSE, func))
        on_func(func) ==
            on_r(func, Module_try_reserve_name(module, func.name.lex, func.name.start))
    IN  IF n > Len(ast_fns) THEN [module |-> module, out |-> OutOk]
        ELSE on_func(ast_fns[n])

ModuleCompiler_declare_functions(module, handle) ==
    ModuleCompiler_declare_functions_loop([module EXCEPT !.ast.functions = <<>>],
                                          handle, module.ast.functions, 1)

\* IndexMap::insert: a key already present keeps its position and gets the
\* new value.
IndexMap_insert(map, key, value) ==
    IF \E n \in 1..Len(map) : map[n].key = key
    THEN [n \in 1..Len(map) |->
             IF map[n].key = key THEN [key |-> key, value |-> value] ELSE map[n]]
    ELSE Append(map, [key |-> key, value |-> value])

\* The three loops of generate_classes over one class, all of them run
\* under the shared borrow `module.borrow()` of the enclosing for loop.
RECURSIVE ModuleCompiler_generate_members(_, _, _, _, _)
ModuleCompiler_generate_members(module, handle, c, members, n) ==
    LET on_ty(member, ty) ==
            IF ty.out # OutOk THEN [module |-> module, out |-> ty.out]
            ELSE ModuleCompiler_generate_members(
                     [module EXCEPT !.classes[c].content =
                         IndexMap_insert(@, member.name.lex,
                             [c |-> "Member",
                              store |-> VarStore(ty.ty, member.name.lex, n - 1,
                                                 member.mutable)])],
                     handle, c, members, n + 1)
        on_member(member) ==
            on_ty(member, ModuleCompiler_resolve_ty(module, handle, TRUE, member.ty))
    IN  IF n > Len(members) THEN [module |-> module, out |-> OutOk]
        ELSE on_member(members[n])

\* `for method in ast.methods.drain(..)` and the same loop over
\* ast.functions; which is "methods" or "functions".
RECURSIVE ModuleCompiler_generate_methods(_, _, _, _, _, _)
ModuleCompiler_generate_methods(module, handle, c, which, fns, n) ==
    LET on_d(d) ==
            IF d.out # OutOk THEN d
            ELSE ModuleCompiler_generate_methods(
                     [d.module EXCEPT !.classes[c].content =
                         IndexMap_insert(@, fns[n].name.lex,
                             [c |-> IF which = "methods" THEN "Method" ELSE "Function",
                              fun |-> FuncRef(handle, Len(d.module.funcs) - 1)])],
                     handle, c, which, fns, n + 1)
    IN  IF n > Len(fns) THEN [module |-> module, out |-> OutOk]
        ELSE on_d(ModuleCompiler_declare_function(module, handle, TRUE, fns[n]))

RECURSIVE ModuleCompiler_generate_classes_loop(_, _, _)
ModuleCompiler_generate_classes_loop(module, handle, c) ==
    LET on_fun(fun) ==
            IF fun.out # OutOk THEN fun
            ELSE ModuleCompiler_generate_classes_loop(fun.module, handle, c + 1)
        on_met(ast, met) ==
            IF met.out # OutOk THEN met ELSE
            on_fun(ModuleCompiler_generate_methods(
                       [met.module EXCEPT !.classes[c].ast.functions = <<>>],
                       handle, c, "functions", ast.functions, 1))
        on_mem(ast, mem) ==
            IF mem.out # OutOk THEN mem ELSE
            on_met(ast, ModuleCompiler_generate_methods(
                            [mem.module EXCEPT !.classes[c].ast.methods = <<>>],
                            handle, c, "methods", ast.methods, 1))
        on_ast(ast) ==
            on_mem(ast, ModuleCompiler_generate_members(module, handle, c, ast.members, 1))
    IN  IF c > Len(module.classes) THEN [module |-> module, out |-> OutOk]
        ELSE on_ast(module.classes[c].ast)

ModuleCompiler_generate_classes(module, handle) ==
    ModuleCompiler_generate_classes_loop(module, handle, 1)

\* generate_functions: every function with a body, in order.  calls is the
\* history of err() calls made on the way.
RECURSIVE ModuleCompiler_generate_functions_loop(_, _, _, _)
ModuleCompiler_generate_functions_loop(module, handle, n, calls) ==
    LET on_m(r, m) ==
            IF r.st.panic # ""
            THEN [module |-> m, out |-> OutPanic(r.st.panic),
                  err_calls |-> calls \o r.st.err_calls]
            ELSE ModuleCompiler_generate_functions_loop(
                     [m EXCEPT !.funcs[n].body = r.e], handle, n + 1,
                     calls \o r.st.err_calls)
        on_r(r) == on_m(r, [module EXCEPT !.funcs[n].locals = r.st.locals])
        on_func(func) ==
            on_r(ExprCompiler_expr(func.ast.body[1], ExprCompiler_new(func),
                     [module |-> handle, funcs |-> module.funcs, params |-> func.params]))
    IN  IF n > Len(module.funcs)
        THEN [module |-> module, out |-> OutOk, err_calls |-> calls]
        ELSE IF module.funcs[n].ast.body = <<>>
        THEN ModuleCompiler_generate_functions_loop(module, handle, n + 1, calls)
        ELSE on_func(module.funcs[n])

ModuleCompiler_generate_functions(module, handle) ==
    ModuleCompiler_generate_functions_loop(module, handle, 1, <<>>)

(***************************************************************************)
(* Source files, as the token sequences of their text                      *)
(***************************************************************************)
T_FUN == Tok("Fun", "fun")
T_CLASS == Tok("Class", "class")
\* parser/mod.rs matches on TKind::Extern and TKind::Static; the TKind enum of
\* lexer.rs has no rule that yields them.
T_EXTERN == Tok("Extern", "extern")
T_STATIC == Tok("Static", "static")
T_IF == Tok("If", "if")
T_ELSE == Tok("Else", "else")
T_WHILE == Tok("While", "while")
T_VAR == Tok("Var", "var")
T_VAL == Tok("Val", "val")
T_TRUE == Tok("True", "true")
T_FALSE == Tok("False", "false")
T_LP == Tok("LeftParen", "(")
T_RP == Tok("RightParen", ")")
T_LB == Tok("LeftBrace", "{")
T_RB == Tok("RightBrace", "}")
T_COLON == Tok("Colon", ":")
T_COMMA == Tok("Comma", ",")
T_ARROW == Tok("Arrow", "->")
T_EQ == Tok("Equal", "=")
T_PLUS == Tok("Plus", "+")
T_MINUS == Tok("Minus", "-")
T_STAR == Tok("Star", "*")
T_SLASH == Tok("Slash", "/")
T_BANG == Tok("Bang", "!")
T_ID(name) == Tok("Identifier", name)
T_INT(digits) == Tok("Int", digits)
T_FLOAT(text) == Tok("Float", text)
T_STR(text) == Tok("String", text)

ComparisonOps ==
    <<Tok("EqualEqual", "=="), Tok("BangEqual", "!="), Tok("Less", "<"),
      Tok("LessEqual", "<="), Tok("Greater", ">"), Tok("GreaterEqual", ">=")>>

InfixOps ==
    ComparisonOps \o <<Tok("And", "and"), Tok("Or", "or"), T_PLUS, T_MINUS, T_STAR, T_SLASH, T_EQ>>

\* `fun name(params) ret body`
Fun(name, params, ret, body) == <<T_FUN, T_ID(name), T_LP>> \o params \o <<T_RP>> \o ret \o body

RetI64 == <<T_ARROW, T_ID("i64")>>
RetBool == <<T_ARROW, T_ID("bool")>>

\* `fun main() ret { body }`, the shape of the tests of lib.rs
Main(ret, body) == Fun("main", <<>>, ret, <<T_LB>> \o body \o <<T_RB>>)

\* Operands of the generated binary expressions: two integers, a boolean,
\* a float and a name that nothing declares.
Operands == <<T_INT(<<5>>), T_INT(<<7>>), T_TRUE, T_FLOAT("1.5"), T_ID("x")>>

\* `fun main() -> i64 { l op r }` for every pair of operands and operator.
BinarySources ==
    [n \in 1..(Len(Operands) * Len(InfixOps) * Len(Operands)) |->
        LET l == ((n - 1) \div (Len(InfixOps) * Len(Operands))) + 1
            o == (((n - 1) \div Len(Operands)) % Len(InfixOps)) + 1
            r == ((n - 1) % Len(Operands)) + 1
        IN  Main(RetI64, <<Operands[l], InfixOps[o], Operands[r]>>)]

\* Conditions and branches of the generated `if` expressions.
Conditions == <<<<T_TRUE>>, <<T_FALSE>>, <<T_INT(<<5>>)>>, <<T_ID("x")>>>>

Branches ==
    << <<T_INT(<<3, 5>>)>>, <<T_INT(<<0>>)>>, <<T_FLOAT("35.42")>>, <<T_TRUE>>, <<T_LB, T_RB>>,
       <<T_WHILE, T_LP, T_FALSE, T_RP, T_LB, T_RB>>, <<T_ID("x")>> >>

\* `fun main() { if (c) t }` and `fun main() { if (c) t else e }`
IfSources ==
    [n \in 1..(Len(Conditions) * Len(Branches) * (Len(Branches) + 1)) |->
        LET c == ((n - 1) \div (Len(Branches) * (Len(Branches) + 1))) + 1
            t == (((n - 1) \div (Len(Branches) + 1)) % Len(Branches)) + 1
            e == (n - 1) % (Len(Branches) + 1)
        IN  Main(<<>>, <<T_IF, T_LP>> \o Conditions[c] \o <<T_RP>> \o Branches[t]
                       \o (IF e = 0 THEN <<>> ELSE <<T_ELSE>> \o Branches[e]))]

AddFn == Fun("add", <<T_ID("a"), T_COLON, T_ID("i64"), T_COMMA, T_ID("b"), T_COLON, T_ID("i64")>>,
             RetI64, <<T_LB, T_ID("a"), T_PLUS, T_ID("b"), T_RB>>)

\* Argument lists of the generated calls of add(a: i64, b: i64).
ArgLists ==
    << <<>>, <<T_INT(<<1>>)>>, <<T_INT(<<4, 0, 0>>), T_COMMA, T_INT(<<2, 2>>)>>,
       <<T_TRUE, T_COMMA, T_INT(<<2>>)>>, <<T_INT(<<1>>), T_COMMA, T_ID("x")>>,
       <<T_INT(<<1>>), T_COMMA, T_INT(<<2>>), T_COMMA, T_INT(<<3>>)>>,
       <<T_FLOAT("1.5"), T_COMMA, T_TRUE>> >>

Callees == <<T_ID("add"), T_ID("x"), T_INT(<<5>>), T_ID("main")>>

\* `fun add(a: i64, b: i64) -> i64 { a + b }  fun main() -> i64 { f(args) }`
CallSources ==
    [n \in 1..(Len(Callees) * Len(ArgLists)) |->
        LET f == ((n - 1) \div Len(ArgLists)) + 1
            a == ((n - 1) % Len(ArgLists)) + 1
        IN  AddFn \o Main(RetI64, <<Callees[f], T_LP>> \o ArgLists[a] \o <<T_RP>>)]

\* `fun main() -> bool { val n = 0 - 5  l op r }` for integer operands l
\* and r; n is the negative operand, which has no literal.
CompareOperands ==
    << [toks |-> <<T_INT(<<5>>)>>, v |-> 5],
       [toks |-> <<T_INT(<<7>>)>>, v |-> 7],
       [toks |-> <<T_ID("n")>>, v |-> 0 - 5] >>

CompareCases ==
    [n \in 1..(Len(CompareOperands) * Len(ComparisonOps) * Len(CompareOperands)) |->
        [l |-> CompareOperands[((n - 1) \div (Len(ComparisonOps) * Len(CompareOperands))) + 1],
         op |-> ComparisonOps[(((n - 1) \div Len(CompareOperands)) % Len(ComparisonOps)) + 1],
         r |-> CompareOperands[((n - 1) % Len(CompareOperands)) + 1]]]

CompareSources ==
    [n \in 1..Len(CompareCases) |->
        Main(RetBool, <<T_VAL, T_ID("n"), T_EQ, T_INT(<<0>>), T_MINUS, T_INT(<<5>>)>>
                      \o CompareCases[n].l.toks \o <<CompareCases[n].op>>
                      \o CompareCases[n].r.toks)]

EmptyFn(name) == Fun(name, <<>>, <<>>, <<T_LB, T_RB>>)

\* Top-level declarations, well-formed and not, that the generated modules
\* are put together from.
Decls ==
    << EmptyFn("foo"),
       EmptyFn("bar"),
       Fun("foo", <<>>, RetI64, <<T_LB, T_INT(<<1>>), T_RB>>),
       Fun("baz", <<T_ID("a"), T_COLON, T_ID("zzz")>>, <<>>, <<T_LB, T_RB>>),
       Fun("qux", <<>>, <<T_ARROW, T_ID("zzz")>>, <<T_LB, T_ID("y"), T_RB>>),
       <<T_CLASS, T_ID("foo"), T_LB, T_RB>>,
       <<T_CLASS, T_ID("Pt"), T_LB, T_VAL, T_ID("x"), T_COLON, T_ID("i64"),
         T_VAR, T_ID("y"), T_COLON, T_ID("f64"), T_RB>>,
       <<T_EXTERN, T_FUN, T_ID("hello"), T_LP, T_RP>> \o RetI64,
       <<T_FUN, T_ID("bad"), T_LP, T_LB, T_RB>>,
       <<T_FUN, T_ID("bad"), T_LP, T_RP, T_LB, T_INT(<<1>>), T_PLUS, T_RB>>,
       <<T_FUN, T_ID("bad"), T_LP, T_RP>>,
       <<T_CLASS, T_ID("Bad"), T_LB, T_INT(<<1>>), T_RB>>,
       <<T_RB>> >>

\* Every module of one, two or three of these declarations.
DeclSources ==
    [n \in 1..(Len(Decls) + Len(Decls) * Len(Decls)) |->
        IF n <= Len(Decls) THEN Decls[n]
        ELSE Decls[((n - Len(Decls) - 1) \div Len(Decls)) + 1]
             \o Decls[((n - Len(Decls) - 1) % Len(Decls)) + 1]]

TripleSources ==
    << Decls[9] \o EmptyFn("foo") \o EmptyFn("bar"),
       Decls[10] \o EmptyFn("foo") \o EmptyFn("bar"),
       Decls[4] \o EmptyFn("foo") \o Main(RetI64, <<T_ID("y")>>),
       EmptyFn("foo") \o EmptyFn("foo") \o EmptyFn("foo") >>

\* The programs of the tests of lib.rs and more of their kind.
TestSources ==
    << Main(RetI64, <<T_INT(<<5>>), T_PLUS, T_INT(<<5>>), T_INT(<<2>>), T_MINUS, T_INT(<<2>>), T_INT(<<1>>)>>),
       Main(RetI64, <<T_VAR, T_ID("a"), T_EQ, T_INT(<<3>>),
                      T_WHILE, T_LP, T_ID("a"), ComparisonOps[3], T_INT(<<1, 0>>), T_RP,
                      T_LB, T_ID("a"), T_EQ, T_ID("a"), T_PLUS, T_INT(<<1>>), T_RB, T_ID("a")>>),
       Main(RetI64, <<T_VAL, T_ID("a"), T_EQ, T_INT(<<4, 4>>), T_ID("a")>>),
       Main(RetI64, <<T_VAR, T_ID("a"), T_EQ, T_INT(<<4, 4>>), T_ID("a"), T_EQ, T_INT(<<4>>), T_ID("a")>>),
       Fun("f", <<T_ID("a"), T_COLON, T_ID("i64")>>, RetI64,
           <<T_LB, T_VAR, T_ID("b"), T_EQ, T_INT(<<1>>), T_ID("a"), T_RB>>)
         \o Main(RetI64, <<T_ID("f"), T_LP, T_INT(<<7>>), T_RP>>),
       Fun("f", <<T_ID("a"), T_COLON, T_ID("i64"), T_COMMA, T_ID("c"), T_COLON, T_ID("bool")>>, RetI64,
           <<T_LB, T_VAR, T_ID("b"), T_EQ, T_INT(<<1>>), T_LB, T_VAL, T_ID("d"), T_EQ, T_ID("c"), T_RB,
             T_VAR, T_ID("a"), T_EQ, T_ID("b"), T_ID("a"), T_RB>>),
       Main(<<>>, <<T_STR("s")>>),
       Main(<<>>, <<T_MINUS, T_INT(<<1>>)>>),
       Main(<<>>, <<T_STR("s"), T_PLUS, T_INT(<<1>>)>>),
       Main(RetI64, <<T_ID("x"), T_LP, T_RP, T_PLUS, T_INT(<<1>>)>>),
       Main(RetBool, <<T_IF, T_LP, T_ID("x"), ComparisonOps[3], T_INT(<<1>>), T_RP, T_TRUE, T_ELSE, T_FALSE>>),
       Main(<<>>, <<T_WHILE, T_LP, T_ID("x"), T_RP, T_LB, T_RB>>),
       <<T_EXTERN, T_FUN, T_ID("hello"), T_LP, T_RP>> \o RetI64
         \o Main(RetI64, <<T_ID("hello"), T_LP, T_RP>>),
       <<T_CLASS, T_ID("C"), T_LB, T_FUN, T_ID("m"), T_LP, T_RP, T_LB, T_RB, T_RB>>,
       <<T_CLASS, T_ID("C"), T_LB, T_VAL, T_ID("p"), T_COLON, T_ID("C"), T_RB>>,
       <<>> >>

\* The infix operators, and the prefix operators.
AllInfix ==
    <<T_EQ, Tok("Or", "or"), Tok("And", "and")>> \o ComparisonOps
    \o <<T_PLUS, T_MINUS, T_STAR, T_SLASH, Tok("Is", "is")>>

Prefixes == <<T_MINUS, T_BANG>>

\* `fun main() { a p b q c }` for every two infix operators p and q.
ChainSources ==
    [n \in 1..(Len(AllInfix) * Len(AllInfix)) |->
        Main(<<>>, <<T_ID("a"), AllInfix[((n - 1) \div Len(AllInfix)) + 1], T_ID("b"),
                     AllInfix[((n - 1) % Len(AllInfix)) + 1], T_ID("c")>>)]

\* `fun main() { u a p b }` for every prefix operator u and infix operator p.
PrefixSources ==
    [n \in 1..(Len(Prefixes) * Len(AllInfix)) |->
        Main(<<>>, <<Prefixes[((n - 1) \div Len(AllInfix)) + 1], T_ID("a"),
                     AllInfix[((n - 1) % Len(AllInfix)) + 1], T_ID("b")>>)]

\* Names bound more than once: `a` as parameter, as local of the body and
\* as local of an inner block, each of another type; `g` as function and
\* as local; `x` bound nowhere.
ScopeSources ==
    << Fun("f", <<T_ID("a"), T_COLON, T_ID("i64")>>, <<>>,
           <<T_LB, T_ID("a"), T_VAL, T_ID("a"), T_EQ, T_TRUE, T_ID("a"),
             T_LB, T_ID("a"), T_VAL, T_ID("a"), T_EQ, T_FLOAT("1.5"), T_ID("a"), T_RB,
             T_ID("a"), T_RB>>),
       Fun("g", <<>>, RetI64, <<T_LB, T_INT(<<1>>), T_RB>>)
         \o Main(<<>>, <<T_ID("g"), T_VAL, T_ID("g"), T_EQ, T_INT(<<1>>), T_ID("g"),
                         T_ID("x")>>) >>

\* Blocks as bodies of `fun main() -> i64`, with the value the block has
\* when its children are evaluated in order: `1 2 3`,
\* `var a = 1  a = a + 1  a = a * 3  a` and `var a = 1 { a = a + 1  a * 5 }`.
BlockCases ==
    << [body |-> <<T_INT(<<1>>), T_INT(<<2>>), T_INT(<<3>>)>>, value |-> 3],
       [body |-> <<T_VAR, T_ID("a"), T_EQ, T_INT(<<1>>),
                   T_ID("a"), T_EQ, T_ID("a"), T_PLUS, T_INT(<<1>>),
                   T_ID("a"), T_EQ, T_ID("a"), T_STAR, T_INT(<<3>>), T_ID("a")>>,
        value |-> 6],
       [body |-> <<T_VAR, T_ID("a"), T_EQ, T_INT(<<1>>),
                   T_LB, T_ID("a"), T_EQ, T_ID("a"), T_PLUS, T_INT(<<1>>),
                         T_ID("a"), T_STAR, T_INT(<<5>>), T_RB>>,
        value |-> 10] >>

BlockSources == [n \in 1..Len(BlockCases) |-> Main(RetI64, BlockCases[n].body)]

\* Loops as bodies of `fun main() -> i64`, with the value main returns:
\* the two loops of test::while_, and
\* `var a = 0  var n = 0  while (a < 3) { a = a + 1  n = n + 10 }  n`.
WhileCases ==
    << [body |-> <<T_VAR, T_ID("a"), T_EQ, T_INT(<<3>>),
                   T_WHILE, T_LP, T_ID("a"), ComparisonOps[3], T_INT(<<1, 0>>), T_RP,
                   T_LB, T_ID("a"), T_EQ, T_ID("a"), T_PLUS, T_INT(<<1>>), T_RB, T_ID("a")>>,
        value |-> 10],
       [body |-> <<T_VAR, T_ID("a"), T_EQ, T_INT(<<3>>),
                   T_WHILE, T_LP, T_ID("a"), ComparisonOps[5], T_INT(<<1, 0>>), T_RP,
                   T_LB, T_ID("a"), T_EQ, T_ID("a"), T_PLUS, T_INT(<<1>>), T_RB, T_ID("a")>>,
        value |-> 3],
       [body |-> <<T_VAR, T_ID("a"), T_EQ, T_INT(<<0>>), T_VAR, T_ID("n"), T_EQ, T_INT(<<0>>),
                   T_WHILE, T_LP, T_ID("a"), ComparisonOps[3], T_INT(<<3>>), T_RP,
                   T_LB, T_ID("a"), T_EQ, T_ID("a"), T_PLUS, T_INT(<<1>>),
                         T_ID("n"), T_EQ, T_ID("n"), T_PLUS, T_INT(<<1, 0>>), T_RB,
                   T_ID("n")>>,
        value |-> 30] >>

WhileSources == [n \in 1..Len(WhileCases) |-> Main(RetI64, WhileCases[n].body)]

\* `if` expressions with two branches of type i64 as bodies of
\* `fun main() -> i64`, with the value main returns: the two of
\* test::if_expr, `if (5 < 7) 1 else 2`, and
\* `var a = 0  val r = if (c) { a = a + 1  35 } else { a = a + 10  0 }  r + a`
\* for c true and false.
IfBranches(c) ==
    <<T_VAR, T_ID("a"), T_EQ, T_INT(<<0>>), T_VAL, T_ID("r"), T_EQ, T_IF, T_LP, c, T_RP,
      T_LB, T_ID("a"), T_EQ, T_ID("a"), T_PLUS, T_INT(<<1>>), T_INT(<<3, 5>>), T_RB, T_ELSE,
      T_LB, T_ID("a"), T_EQ, T_ID("a"), T_PLUS, T_INT(<<1, 0>>), T_INT(<<0>>), T_RB,
      T_ID("r"), T_PLUS, T_ID("a")>>

IfCases ==
    << [body |-> <<T_IF, T_LP, T_TRUE, T_RP, T_INT(<<3, 5>>), T_ELSE, T_INT(<<0>>)>>,
        value |-> 35],
       [body |-> <<T_IF, T_LP, T_FALSE, T_RP, T_INT(<<3, 5>>), T_ELSE, T_INT(<<0>>)>>,
        value |-> 0],
       [body |-> <<T_IF, T_LP, T_INT(<<5>>), ComparisonOps[3], T_INT(<<7>>), T_RP,
                   T_INT(<<1>>), T_ELSE, T_INT(<<2>>)>>,
        value |-> 1],
       [body |-> IfBranches(T_TRUE), value |-> 36],
       [body |-> IfBranches(T_FALSE), value |-> 10] >>

IfExprSources == [n \in 1..Len(IfCases) |-> Main(RetI64, IfCases[n].body)]

\* Classes: members of primitive type alone, a method alone, a member of
\* class type, and `class D { val x: i64  fun x() {} }`, a member and a
\* method of the same name.
ClassSources ==
    << Decls[7], TestSources[14], TestSources[15],
       <<T_CLASS, T_ID("D"), T_LB, T_VAL, T_ID("x"), T_COLON, T_ID("i64"),
         T_FUN, T_ID("x"), T_LP, T_RP, T_LB, T_RB, T_RB>> >>

\* Functions met by the backend through a call site first (`g` follows
\* main), through their definition first (`g` precedes main), and never
\* defined (`extern fun hello() -> i64`, called twice).
GFn == <<T_FUN, T_ID("g"), T_LP, T_RP>> \o RetI64 \o <<T_LB, T_INT(<<4>>), T_RB>>

TwoCalls(name) == <<T_ID(name), T_LP, T_RP, T_PLUS, T_ID(name), T_LP, T_RP>>

DeclareCases ==
    << [toks |-> Main(RetI64, TwoCalls("g")) \o GFn, value |-> 8],
       [toks |-> GFn \o Main(RetI64, TwoCalls("g")), value |-> 8],
       [toks |-> <<T_EXTERN, T_FUN, T_ID("hello"), T_LP, T_RP>> \o RetI64
                   \o Main(RetI64, TwoCalls("hello")),
        value |-> 26] >>

DeclareSources == [n \in 1..Len(DeclareCases) |-> DeclareCases[n].toks]

Sources == TestSources \o BinarySources \o CompareSources \o IfSources \o CallSources
           \o DeclSources
           \o TripleSources
           \o ChainSources \o PrefixSources \o ScopeSources
           \o BlockSources \o WhileSources \o IfExprSources \o ClassSources
           \o DeclareSources

\* The directories execute_path is run on: sequences of source files.
Directories ==
    << <<>>,
       <<Main(RetI64, <<T_INT(<<1>>)>>)>>,
       <<EmptyFn("foo"), Main(RetI64, <<T_INT(<<1>>)>>)>>,
       <<Decls[9], Main(RetI64, <<T_INT(<<1>>)>>)>>,
       <<Decls[9], Decls[10]>>,
       <<Main(RetI64, <<T_INT(<<5>>), T_PLUS, T_TRUE>>), EmptyFn("foo")>>,
       <<EmptyFn("foo"), EmptyFn("foo") \o EmptyFn("foo")>>,
       <<EmptyFn("foo"), Decls[4]>>,
       <<<<T_EXTERN, T_FUN, T_ID("hello"), T_LP, T_RP>> \o RetI64
           \o Main(RetI64, <<T_ID("hello"), T_LP, T_RP>>),
         EmptyFn("foo")>> >>

(***************************************************************************)
(* The embedding API (lib.rs): execute_module and execute_path as a state  *)
(* machine.                                                                *)
(***************************************************************************)
\* The symbol tables of the tests: none, and the host function `hello`
\* that returns 13.
SymbolTables ==
    << <<>>, <<[name |-> "hello", returns |-> <<[ty |-> "i64", v |-> 13]>>]>> >>

VARIABLES
    api,        \* "execute_module" or "execute_path"
    files,      \* the source files: one program, or what walk_directory delivers
    pc,         \* where the call stands
    file,       \* the file being parsed (position in files)
    parser,     \* the Parser and the locals of parse(): pos, errors, functions, classes
    modules,    \* execute_path: the AST modules parsed so far
    errors,     \* execute_path: the error lists of the files that failed to parse
    compilers,  \* the ModuleCompilers: [module, errors]
    comp,       \* the compiler stage_1 is running on, then the module being jitted
    err_calls,  \* history: the arguments of all calls of ExprCompiler::err
    symbols,    \* the SymbolTable argument: the host functions, by name
    jit,        \* the JIT: the functions declared, defined and finalized
    result,     \* <<>> or the value the call returned
    panic,      \* "" or the message of the panic that ended the call
    loop,       \* the run of main one basic block at a time (LoopSpec)
    smol,       \* two SmolStr values and the strings they were made of (SmolSpec)
    drive,      \* an AtaDrive and the disk behind it (DriveSpec)
    shell       \* the kernel Shell: current_command and cursor_pos (ShellSpec)

vars == <<api, files, pc, file, parser, modules, errors, compilers, comp,
          err_calls, symbols, jit, result, panic, loop, smol, drive, shell>>

\* The state of execute_module and execute_path.
lang_vars == <<api, files, pc, file, parser, modules, errors, compilers, comp,
               err_calls, symbols, jit, result, panic, loop>>

\* No SmolStr, drive or shell takes part in a run of the language.
NoSmol == [at |-> "none"]

NoDrive == [at |-> "none"]

NoShell == [at |-> "none"]

\* Exec runs main in one step: no basic block is current.
NoLoop == [block |-> "none"]

NoParser == [pos |-> 0, errors |-> <<>>, functions |-> <<>>, classes |-> <<>>]

Init ==
    /\ \/ api = "execute_module" /\ \E n \in 1..Len(Sources) : files = <<Sources[n]>>
       \/ api = "execute_path" /\ \E n \in 1..Len(Directories) : files = Directories[n]
    /\ pc = IF files = <<>> THEN "collected" ELSE "new"
    /\ file = 1
    /\ parser = NoParser
    /\ modules = <<>>
    /\ errors = <<>>
    /\ compilers = <<>>
    /\ comp = 1
    /\ err_calls = <<>>
    /\ symbols \in {SymbolTables[n] : n \in 1..Len(SymbolTables)}
    /\ jit = [entered |-> FALSE, declared |-> <<>>, defined |-> {}, code |-> <<>>,
              main_called |-> FALSE]
    /\ result = <<>>
    /\ panic = ""
    /\ loop = NoLoop
    /\ smol = NoSmol
    /\ drive = NoDrive
    /\ shell = NoShell

Panic(msg) ==
    /\ pc' = "panic"
    /\ panic' = msg

\* Parser::new: lexer.next().unwrap() takes the first token.
ParserNew ==
    /\ pc = "new"
    /\ IF files[file] = <<>>
       THEN /\ Panic("called Option::unwrap() on a None value")
            /\ UNCHANGED parser
       ELSE /\ parser' = [NoParser EXCEPT !.pos = 1]
            /\ pc' = "parse"
            /\ UNCHANGED panic
    /\ UNCHANGED <<smol, drive, shell, loop, api, symbols, files, file, modules, errors, compilers, comp, err_calls,
                   jit, result>>

\* make_cls and make_fn: push the declaration, or push the error and
\* synchronize.
Parser_make(toks, p, r, into) ==
    IF r.ok
    THEN [parser EXCEPT !.pos = r.pos, ![into] = Append(@, r.val)]
    ELSE [parser EXCEPT !.pos = Parser_synchronize(toks, r.pos),
                        !.errors = Append(@, r.err)]

\* One iteration of the loop of Parser::parse.
ParseStep ==
    /\ pc = "parse"
    /\ ~Parser_is_at_end(files[file], parser.pos)
    /\ LET toks == files[file]
           kind == Parser_advance(toks, parser.pos).val.kind
           p == parser.pos + 1
       IN  parser' =
              CASE kind = "Class" -> Parser_make(toks, p, Parser_class(toks, p), "classes")
                [] kind = "Fun" ->
                      Parser_make(toks, p, Parser_function(toks, p, FALSE), "functions")
                [] kind = "Extern" /\ Parser_check(toks, p, "Fun") ->
                      Parser_make(toks, p + 1, Parser_function(toks, p + 1, TRUE),
                                  "functions")
                [] OTHER ->
                      [parser EXCEPT
                          !.pos = Parser_synchronize(toks, p),
                          !.errors = Append(@, [kind |-> "E102",
                                                start |-> Cur(toks, p).start])]
    /\ UNCHANGED <<smol, drive, shell, loop, api, symbols, files, pc, file, modules, errors, compilers, comp, err_calls,
                   jit, result, panic>>

\* The end of Parser::parse and what its caller does with the result:
\* execute_module returns the errors or builds the ModuleCompiler,
\* execute_path pushes onto modules or errors and goes on with the walk.
ParseFinish ==
    /\ pc = "parse"
    /\ Parser_is_at_end(files[file], parser.pos)
    /\ LET ok == parser.errors = <<>>
           module == [functions |-> parser.functions, classes |-> parser.classes,
                      path |-> IF api = "execute_module" THEN <<"script">> ELSE <<file>>]
       IN  IF api = "execute_module"
           THEN /\ IF ok
                   THEN /\ compilers' = <<ModuleCompiler_new(module)>>
                        /\ pc' = "declare_classes"
                        /\ UNCHANGED result
                   ELSE /\ result' = <<[ok |-> FALSE, err |-> parser.errors]>>
                        /\ pc' = "done"
                        /\ UNCHANGED compilers
                /\ UNCHANGED <<modules, errors, file>>
           ELSE /\ modules' = IF ok THEN Append(modules, module) ELSE modules
                /\ errors' = IF ok THEN errors ELSE Append(errors, parser.errors)
                /\ IF file < Len(files)
                   THEN file' = file + 1 /\ pc' = "new"
                   ELSE file' = file /\ pc' = "collected"
                /\ UNCHANGED <<compilers, result>>
    /\ UNCHANGED <<smol, drive, shell, loop, api, symbols, files, parser, comp, err_calls, jit, panic>>

\* execute_path after the walk: return the parse errors, or Compiler::new.
Collected ==
    /\ pc = "collected"
    /\ IF errors # <<>>
       THEN /\ result' = <<[ok |-> FALSE, err |-> errors]>>
            /\ pc' = "done"
            /\ UNCHANGED compilers
       ELSE /\ compilers' = [n \in 1..Len(modules) |-> ModuleCompiler_new(modules[n])]
            /\ pc' = IF modules = <<>> THEN "finish" ELSE "declare_classes"
            /\ UNCHANGED result
    /\ UNCHANGED <<smol, drive, shell, loop, api, symbols, files, file, parser, modules, errors, comp, err_calls, jit, panic>>

\* stage_1 unwraps the Res of every pass.
Unwrap(out, next) ==
    CASE out.res = "Ok" -> pc' = next /\ UNCHANGED panic
      [] out.res = "Err" ->
            Panic("called Result::unwrap() on an Err value: " \o out.err.kind)
      [] out.res = "panic" -> Panic(out.msg)

DeclareClasses ==
    LET done(r) ==
            /\ compilers' = [compilers EXCEPT ![comp].module = r.module]
            /\ Unwrap(r.out, "declare_functions")
    IN
    /\ pc = "declare_classes"
    /\ done(ModuleCompiler_declare_classes(compilers[comp].module))
    /\ UNCHANGED <<smol, drive, shell, loop, api, symbols, files, file, parser, modules, errors, comp, err_calls, jit, result>>

DeclareFunctions ==
    LET done(r) ==
            /\ compilers' = [compilers EXCEPT ![comp].module = r.module]
            /\ Unwrap(r.out, "generate_classes")
    IN
    /\ pc = "declare_functions"
    /\ done(ModuleCompiler_declare_functions(compilers[comp].module, comp))
    /\ UNCHANGED <<smol, drive, shell, loop, api, symbols, files, file, parser, modules, errors, comp, err_calls, jit, result>>

GenerateClasses ==
    LET done(r) ==
            /\ compilers' = [compilers EXCEPT ![comp].module = r.module]
            /\ Unwrap(r.out, "generate_functions")
    IN
    /\ pc = "generate_classes"
    /\ done(ModuleCompiler_generate_classes(compilers[comp].module, comp))
    /\ UNCHANGED <<smol, drive, shell, loop, api, symbols, files, file, parser, modules, errors, comp, err_calls, jit, result>>

\* The last pass of stage_1; all_mods then goes on with the next compiler.
GenerateFunctions ==
    LET done(r) ==
            /\ compilers' = [compilers EXCEPT ![comp].module = r.module]
            /\ err_calls' = err_calls \o r.err_calls
            /\ Unwrap(r.out, IF comp < Len(compilers) THEN "declare_classes" ELSE "finish")
            /\ comp' = IF r.out.res = "Ok" /\ comp < Len(compilers) THEN comp + 1 ELSE comp
    IN
    /\ pc = "generate_functions"
    /\ done(ModuleCompiler_generate_functions(compilers[comp].module, comp))
    /\ UNCHANGED <<smol, drive, shell, loop, api, symbols, files, file, parser, modules, errors, jit, result>>

\* ModuleCompiler::consume after run_all, and Compiler::finish.
Finish ==
    /\ pc = "finish"
    /\ LET errs == SelectSeq([n \in 1..Len(compilers) |-> compilers[n].errors],
                             LAMBDA e : e # <<>>)
       IN  IF errs = <<>>
           THEN /\ pc' = IF compilers = <<>> THEN "exec" ELSE "jit"
                /\ comp' = 1
                /\ UNCHANGED result
           ELSE /\ result' = <<[ok |-> FALSE,
                                err |-> IF api = "execute_module" THEN errs[1] ELSE errs]>>
                /\ pc' = "done"
                /\ UNCHANGED comp
    /\ UNCHANGED <<smol, drive, shell, loop, api, symbols, files, file, parser, modules, errors, compilers, err_calls,
                   jit, panic>>

(***************************************************************************)
(* JIT backend (vm/mod.rs, vm/typesys.rs, vm/function).                    *)
(*                                                                         *)
(* Translation is modelled by what it makes of the backend: the values of  *)
(* an expression are given by their backend types ("b1", "i64", "f64"),    *)
(* and the translation state tr holds                                      *)
(*   jit        the JIT (the functions declared to the JITModule),         *)
(*   compilers  the IR modules, for the `ir` cell of every function,       *)
(*   bad        whether an instruction was emitted that the backend's      *)
(*              verifier rejects (define_function then returns Err),       *)
(*   panic      "" or the panic that ended the translation.                *)
(***************************************************************************)
\* translate_type: the backend types a value of type typ is flattened to.
RECURSIVE translate_type(_, _)
RECURSIVE translate_members(_, _, _)
translate_members(content, n, cs) ==
    IF n > Len(content) THEN <<>>
    ELSE IF content[n].value.c # "Member" THEN <<>>
    ELSE translate_type(content[n].value.store.ty, cs)
         \o translate_members(content, n + 1, cs)

translate_type(typ, cs) ==
    CASE typ.t \in {"Void", "Poison"} -> <<>>
      [] typ.t = "Bool" -> <<"b1">>
      [] typ.t = "F64" -> <<"f64">>
      [] typ.t = "I64" -> <<"i64">>
      [] typ.t = "Function" -> <<"i64">>
      [] typ.t = "Class" ->
            translate_members(
                cs[typ.ref.module].module.classes[typ.ref.index + 1].content, 1, cs)

make_fn_sig(func, cs) ==
    LET P[n \in 0..Len(func.params)] ==
            IF n = 0 THEN <<>> ELSE P[n - 1] \o translate_type(func.params[n].ty, cs)
    IN  [params |-> P[Len(func.params)], returns |-> translate_type(func.ret_type, cs)]

get_linkage(func) == IF func.ast.body = <<>> THEN "Import" ELSE "Export"

\* JITModule::declare_function: the id of a name already declared with the
\* same signature (an exported declaration wins over an imported one), a
\* new id for a new name, and Err for another signature.  `calls` is a
\* history field: how often the name was declared.
JITModule_declare_function(j, name, linkage, sig) ==
    LET hits == {n \in 1..Len(j.declared) : j.declared[n].name = name} IN
    IF hits = {}
    THEN [ok |-> TRUE, id |-> Len(j.declared) + 1,
          jit |-> [j EXCEPT !.declared =
                       Append(@, [name |-> name, linkage |-> linkage, sig |-> sig,
                                  calls |-> 1])]]
    ELSE LET id == CHOOSE n \in hits : TRUE IN
         IF j.declared[id].sig # sig THEN [ok |-> FALSE, id |-> 0, jit |-> j]
         ELSE [ok |-> TRUE, id |-> id,
               jit |-> [j EXCEPT !.declared[id].linkage =
                                     IF linkage = "Export" THEN "Export" ELSE @,
                                 !.declared[id].calls = @ + 1]]

\* A declaration that never looks at the function's `ir` cell.
get_or_declare_ir_fn_again(tr, m, f) ==
    LET func == tr.compilers[m].module.funcs[f]
        on_d(d) ==
            [id |-> d.id,
             tr |-> [tr EXCEPT !.jit = d.jit,
                               !.compilers[m].module.funcs[f].ir = <<d.id>>]]
    IN  on_d(JITModule_declare_function(tr.jit, func.name, get_linkage(func),
                                        make_fn_sig(func, tr.compilers)))

\* declare_ir_function and get_or_declare_ir_fn: both return the id in the
\* function's `ir` cell, or declare the function and fill the cell.
get_or_declare_ir_fn(tr, m, f) ==
    LET func == tr.compilers[m].module.funcs[f]
        on_d(d) ==
            IF ~d.ok
            THEN [id |-> 0,
                  tr |-> [tr EXCEPT !.panic =
                      "called Result::unwrap() on an Err value: IncompatibleSignature"]]
            ELSE [id |-> d.id,
                  tr |-> [tr EXCEPT !.jit = d.jit,
                                    !.compilers[m].module.funcs[f].ir = <<d.id>>]]
    IN  IF func.ir # <<>> THEN [id |-> func.ir[1], tr |-> tr]
        ELSE on_d(JITModule_declare_function(tr.jit, func.name, get_linkage(func),
                                             make_fn_sig(func, tr.compilers)))

declare_ir_function(tr, m, f) == get_or_declare_ir_fn(tr, m, f)

\* declare_variables: local_offsets after all declare_local calls, the
\* type of every backend Variable declared (a second declaration of a
\* Variable replaces the first), and the Variables that define_local
\* defined from the block parameters.
FnTranslator_declare_local(d, var, cs) ==
    LET declare(last_len, tys) ==
            [d EXCEPT
                !.vars = [v \in (DOMAIN d.vars) \cup {last_len + i - 1 : i \in 1..Len(tys)} |->
                             IF v - last_len + 1 \in 1..Len(tys)
                             THEN tys[v - last_len + 1] ELSE d.vars[v]],
                !.local_offsets = Append(@, last_len + Len(tys))]
    IN  IF var.index + 1 > Len(d.local_offsets)
        THEN [d EXCEPT !.panic = "index out of bounds"]
        ELSE declare(d.local_offsets[var.index + 1], translate_type(var.ty, cs))

\* define_local(var, &params[offset..]) reads with[offset + i].
FnTranslator_define_local(d, var, nparams, cs) ==
    LET define(offset, tys) ==
            IF offset > nparams THEN [d EXCEPT !.panic = "range start index out of range"]
            ELSE IF \E i \in 0..(Len(tys) - 1) : offset + i >= nparams - offset
            THEN [d EXCEPT !.panic = "index out of bounds"]
            ELSE [d EXCEPT
                     !.defined = @ \cup {offset + i : i \in 0..(Len(tys) - 1)},
                     !.from = [v \in (DOMAIN d.from) \cup {offset + i : i \in 0..(Len(tys) - 1)} |->
                                  IF v - offset \in 0..(Len(tys) - 1)
                                  THEN offset + offset + (v - offset) ELSE d.from[v]]]
    IN  define(d.local_offsets[var.index + 1], translate_type(var.ty, cs))

RECURSIVE FnTranslator_declare_params(_, _, _, _, _)
FnTranslator_declare_params(d, params, n, nparams, cs) ==
    LET on_d1(d1) ==
            IF d1.panic # "" THEN d1
            ELSE FnTranslator_declare_params(
                     FnTranslator_define_local(d1, params[n], nparams, cs),
                     params, n + 1, nparams, cs)
    IN  IF n > Len(params) \/ d.panic # "" THEN d
        ELSE on_d1(FnTranslator_declare_local(d, params[n], cs))

RECURSIVE FnTranslator_declare_locals(_, _, _, _)
FnTranslator_declare_locals(d, locals, n, cs) ==
    IF n > Len(locals) \/ d.panic # "" THEN d
    ELSE FnTranslator_declare_locals(FnTranslator_declare_local(d, locals[n], cs),
                                     locals, n + 1, cs)

\* vars: backend Variable -> its declared type; from: Variable -> the
\* position (from 0) of the block parameter it is defined with.
FnTranslator_declare_variables(func, cs) ==
    FnTranslator_declare_locals(
        FnTranslator_declare_params(
            [local_offsets |-> <<0>>, vars |-> <<>>, defined |-> {}, from |-> <<>>,
             panic |-> ""],
            func.params, 1, Len(make_fn_sig(func, cs).params), cs),
        func.locals, 1, cs)

intcmp(tok) ==
    CASE tok = "EqualEqual" -> "Equal"
      [] tok = "BangEqual" -> "NotEqual"
      [] tok = "Greater" -> "SignedGreaterThan"
      [] tok = "GreaterEqual" -> "SignedGreaterThanOrEqual"
      [] tok = "Less" -> "SignedLessThan"
      [] tok = "LessEqual" -> "SignedLessThanOrEqual"
      [] OTHER -> "panic"

floatcmp(tok) ==
    CASE tok = "EqualEqual" -> "Equal"
      [] tok = "BangEqual" -> "NotEqual"
      [] tok = "Greater" -> "GreaterThan"
      [] tok = "GreaterEqual" -> "GreaterThanOrEqual"
      [] tok = "Less" -> "LessThan"
      [] tok = "LessEqual" -> "LessThanOrEqual"
      [] OTHER -> "panic"

TrPanic(tr, msg) == [tys |-> <<>>, tr |-> [tr EXCEPT !.panic = msg]]

\* The instruction of FnTranslator::binary for an operator: its name and
\* the operand type it is defined on.
FnTranslator_binary_inst(is_int, op) ==
    IF is_int
    THEN CASE op = "Plus" -> "iadd" [] op = "Minus" -> "isub" [] op = "Star" -> "imul"
           [] op = "Slash" -> "udiv" [] OTHER -> "icmp"
    ELSE CASE op = "Plus" -> "fadd" [] op = "Minus" -> "fsub" [] op = "Star" -> "fmul"
           [] op = "Slash" -> "fdiv" [] OTHER -> "fcmp"

RECURSIVE FnTranslator_trans_expr(_, _, _)
RECURSIVE FnTranslator_trans_block(_, _, _, _, _)
RECURSIVE FnTranslator_trans_args(_, _, _, _, _)

\* The for loop of the Block arm; value is the Option it keeps.
FnTranslator_trans_block(insts, n, value, tr, fx) ==
    LET on_r(r) == FnTranslator_trans_block(insts, n + 1, <<r.tys>>, r.tr, fx)
    IN  IF tr.panic # "" THEN [tys |-> <<>>, tr |-> tr]
        ELSE IF n > Len(insts)
        THEN IF value = <<>> THEN TrPanic(tr, "called Option::unwrap() on a None value")
             ELSE [tys |-> value[1], tr |-> tr]
        ELSE on_r(FnTranslator_trans_expr(insts[n], tr, fx))

\* The for loop of call over the arguments, collecting call_args.
FnTranslator_trans_args(args, n, acc, tr, fx) ==
    LET on_r(r) == FnTranslator_trans_args(args, n + 1, acc \o r.tys, r.tr, fx)
    IN  IF tr.panic # "" \/ n > Len(args) THEN [tys |-> acc, tr |-> tr]
        ELSE on_r(FnTranslator_trans_expr(args[n], tr, fx))

FnTranslator_binary(left, op, right, tr, fx) ==
    LET emit(l, r, lty, is_int, inst, operand) ==
            IF lty = TPanic THEN TrPanic(r.tr, "not implemented")
            ELSE IF inst = "icmp" /\ intcmp(op) = "panic"
            THEN TrPanic(r.tr, "unknown comparison operator")
            ELSE IF inst = "fcmp" /\ floatcmp(op) = "panic"
            THEN TrPanic(r.tr, "unknown comparison operator")
            ELSE [tys |-> <<IF inst \in {"icmp", "fcmp"} THEN "b1" ELSE l.tys[1]>>,
                  tr |-> [r.tr EXCEPT !.bad =
                             @ \/ ~(l.tys[1] = operand /\ r.tys[1] = operand)]]
        on_is_int(l, r, lty, is_int) ==
            emit(l, r, lty, is_int, FnTranslator_binary_inst(is_int, op),
                 IF is_int THEN "i64" ELSE "f64")
        on_lty(l, r, lty) == on_is_int(l, r, lty, Type_is_int(lty))
        on_r(l, r) ==
            IF r.tr.panic # "" THEN r ELSE
            IF r.tys = <<>> THEN TrPanic(r.tr, "index out of bounds")
            ELSE on_lty(l, r, Expr_typ(left).ty)
        on_l(l) ==
            IF l.tr.panic # "" THEN l ELSE
            IF l.tys = <<>> THEN TrPanic(l.tr, "index out of bounds")
            ELSE on_r(l, FnTranslator_trans_expr(right, l.tr, fx))
    IN  on_l(FnTranslator_trans_expr(left, tr, fx))

FnTranslator_constant(constant, tr) ==
    CASE constant.k = "Bool" -> [tys |-> <<"b1">>, tr |-> tr]
      [] constant.k = "Int" -> [tys |-> <<"i64">>, tr |-> tr]
      [] constant.k = "Float" -> [tys |-> <<"f64">>, tr |-> tr]
      [] constant.k = "String" -> TrPanic(tr, "not implemented")
      [] constant.k = "Function" -> [tys |-> <<"i64">>, tr |-> tr]

\* brz takes an integer or boolean value; jump_cont passes the branch's
\* values when phi is set, and they have to be the parameters that
\* set_cont_params gave the continuation block.
FnTranslator_if_(cond, phi, then, els, tr, fx) ==
    LET on_e(c, cont, t, e) ==
            IF e.tr.panic # "" THEN e ELSE
            [tys |-> cont,
             tr |-> [e.tr EXCEPT !.bad = @ \/ c.tys[1] = "f64"
                                          \/ (phi /\ (t.tys # cont \/ e.tys # cont))]]
        on_t(c, cont, t) ==
            IF t.tr.panic # "" THEN t
            ELSE on_e(c, cont, t, FnTranslator_trans_expr(els, t.tr, fx))
        on_cont(c, cont) ==
            IF c.tys = <<>> THEN TrPanic(c.tr, "index out of bounds")
            ELSE on_t(c, cont, FnTranslator_trans_expr(then, c.tr, fx))
        on_tty(c, tty) ==
            IF phi /\ tty = TPanic THEN TrPanic(c.tr, "not implemented")
            ELSE on_cont(c, IF phi THEN translate_type(tty, c.tr.compilers) ELSE <<>>)
        on_c(c) ==
            IF c.tr.panic # "" THEN c ELSE on_tty(c, Expr_typ(then).ty)
    IN  on_c(FnTranslator_trans_expr(cond, tr, fx))

FnTranslator_while_expr(cond, body, tr, fx) ==
    LET on_b(c, b) ==
            IF b.tr.panic # "" THEN b ELSE
            [tys |-> <<"i64">>, tr |-> [b.tr EXCEPT !.bad = @ \/ c.tys[1] = "f64"]]
        on_c(c) ==
            IF c.tr.panic # "" THEN c ELSE
            IF c.tys = <<>> THEN TrPanic(c.tr, "index out of bounds")
            ELSE on_b(c, FnTranslator_trans_expr(body, c.tr, fx))
    IN  on_c(FnTranslator_trans_expr(cond, tr, fx))

\* use_var gives a value of the type the Variable was declared with.
FnTranslator_variable_expr(index, typ, tr, fx) ==
    LET use(offset, n) ==
            IF \E i \in 0..(n - 1) : offset + i \notin DOMAIN fx.d.vars
            THEN TrPanic(tr, "variable was not declared")
            ELSE [tys |-> [i \in 1..n |-> fx.d.vars[offset + i - 1]], tr |-> tr]
    IN  IF index + 1 > Len(fx.d.local_offsets) THEN TrPanic(tr, "index out of bounds")
        ELSE use(fx.d.local_offsets[index + 1], Len(translate_type(typ, tr.compilers)))

\* def_var wants a value of the type the Variable was declared with.
FnTranslator_assign_var(index, value, typ, tr, fx) ==
    LET def(offset, v, n) ==
            IF v.tr.panic # "" THEN v
            ELSE IF n > Len(v.tys) THEN TrPanic(v.tr, "index out of bounds")
            ELSE IF \E i \in 0..(n - 1) : offset + i \notin DOMAIN fx.d.vars
            THEN TrPanic(v.tr, "variable was not declared")
            ELSE IF \E i \in 0..(n - 1) : fx.d.vars[offset + i] # v.tys[i + 1]
            THEN TrPanic(v.tr, "declared type of variable does not match type of value")
            ELSE v
    IN  IF index + 1 > Len(fx.d.local_offsets) THEN TrPanic(tr, "index out of bounds")
        ELSE def(fx.d.local_offsets[index + 1], FnTranslator_trans_expr(value, tr, fx),
                 Len(translate_type(typ, tr.compilers)))

FnTranslator_call(callee, args, tr, fx) ==
    LET on_a(g, a, sig) ==
            IF a.tr.panic # "" THEN [tys |-> <<>>, tr |-> a.tr]
            ELSE [tys |-> sig.returns,
                  tr |-> [a.tr EXCEPT !.bad = @ \/ a.tys # sig.params,
                                      !.called = @ \cup {g.id}]]
        on_g(g) ==
            IF g.tr.panic # "" THEN [tys |-> <<>>, tr |-> g.tr]
            ELSE on_a(g, FnTranslator_trans_args(args, 1, <<>>, g.tr, fx),
                      g.tr.jit.declared[g.id].sig)
        on_cty(c, cty) ==
            IF cty.t # "Function" THEN TrPanic(c.tr, "into_fn")
            ELSE on_g(get_or_declare_ir_fn(c.tr, cty.ref.module, cty.ref.index + 1))
        on_c(c) ==
            IF c.tr.panic # "" THEN c ELSE on_cty(c, Expr_typ(callee).ty)
    IN  on_c(FnTranslator_trans_expr(callee, tr, fx))

FnTranslator_trans_expr(expr, tr, fx) ==
    LET n == expr.inner IN
    CASE n.i = "Binary" -> FnTranslator_binary(n.left, n.op.kind, n.right, tr, fx)
      [] n.i = "Constant" -> FnTranslator_constant(n.constant, tr)
      [] n.i = "Block" -> FnTranslator_trans_block(n.exprs, 1, <<>>, tr, fx)
      [] n.i = "If" -> FnTranslator_if_(n.cond, n.phi, n.then, n.els, tr, fx)
      [] n.i = "While" -> FnTranslator_while_expr(n.cond, n.body, tr, fx)
      [] n.i = "Variable" -> FnTranslator_variable_expr(n.index, n.typ, tr, fx)
      [] n.i = "Assign" ->
            IF n.store.inner.i = "Variable"
            THEN FnTranslator_assign_var(n.store.inner.index, n.value,
                                         n.store.inner.typ, tr, fx)
            ELSE TrPanic(tr, "Unknown assignment target!")
      [] n.i = "Call" -> FnTranslator_call(n.callee, n.args, tr, fx)
      [] n.i = "Poison" -> TrPanic(tr, "Cannot translate poison values!")

\* build: init, the body, and `return_(&ret)`, whose values have to be the
\* signature's returns.
FnTranslator_build(tr, m, f) ==
    LET func == tr.compilers[m].module.funcs[f]
        on_r(r) ==
            IF r.tr.panic # "" THEN r.tr
            ELSE [r.tr EXCEPT !.bad = @ \/ r.tys # make_fn_sig(func, tr.compilers).returns]
        on_d(d) ==
            IF d.panic # "" THEN [tr EXCEPT !.panic = d.panic]
            ELSE on_r(FnTranslator_trans_expr(func.body, tr, [m |-> m, d |-> d]))
    IN  on_d(FnTranslator_declare_variables(func, tr.compilers))

\* The body of the for loop of jit_module for function f of module m:
\* declare, translate, define_function(..).unwrap().
JIT_jit_function(tr, m, f) ==
    LET on_b(dcl, b) ==
            IF b.panic # "" THEN b
            ELSE IF dcl.id \in b.jit.defined
            THEN [b EXCEPT !.panic =
                     "called Result::unwrap() on an Err value: DuplicateDefinition"]
            ELSE IF b.bad
            THEN [b EXCEPT !.panic =
                     "called Result::unwrap() on an Err value: Compilation(Verifier)"]
            ELSE [b EXCEPT !.jit.defined = @ \cup {dcl.id},
                           !.jit.code = [i \in (DOMAIN @) \cup {dcl.id} |->
                                            IF i = dcl.id THEN [module |-> m, func |-> f]
                                            ELSE @[i]]]
        on_dcl(dcl) ==
            IF dcl.tr.panic # "" THEN dcl.tr
            ELSE on_b(dcl, FnTranslator_build([dcl.tr EXCEPT !.bad = FALSE], m, f))
    IN  on_dcl(declare_ir_function(tr, m, f))

RECURSIVE JIT_jit_functions(_, _, _)
JIT_jit_functions(tr, m, f) ==
    IF tr.panic # "" \/ f > Len(tr.compilers[m].module.funcs) THEN tr
    ELSE IF tr.compilers[m].module.funcs[f].ast.body = <<>>
    THEN JIT_jit_functions(tr, m, f + 1)
    ELSE JIT_jit_functions(JIT_jit_function(tr, m, f), m, f + 1)

\* jit_module: the loop, then finalize_definitions, which has to find the
\* address of every function that is called but not defined in the
\* symbol table.
JIT_jit_module(j, cs, m, syms) ==
    LET finalize(tr) ==
            IF tr.panic # "" THEN tr
            ELSE IF \E id \in tr.called :
                        /\ id \notin tr.jit.defined
                        /\ tr.jit.declared[id].linkage = "Import"
                        /\ ~\E s \in 1..Len(syms) : syms[s].name = tr.jit.declared[id].name
            THEN [tr EXCEPT !.panic = "can't resolve symbol"]
            ELSE tr
    IN  finalize(JIT_jit_functions([jit |-> j, compilers |-> cs, bad |-> FALSE,
                                    called |-> {}, panic |-> ""], m, 1))

(***************************************************************************)
(* The code the backend emits, run.  A value is [ty, v]: v is the integer  *)
(* of an i64 and 0 or 1 for a b1; an f64 keeps its literal, and the run    *)
(* stops with status "float" at the first float instruction.  rt is the    *)
(* frame: the backend Variables, the steps left, and the status ("ok", a   *)
(* trap, or the reason the run was given up).                              *)
(***************************************************************************)
MaxSteps == 12

I64(v) == [ty |-> "i64", v |-> v]
B1(b) == [ty |-> "b1", v |-> IF b THEN 1 ELSE 0]

RtStop(rt, status) == [vals |-> <<>>, rt |-> [rt EXCEPT !.status = status]]

\* udiv divides the operands as unsigned numbers, and traps on zero.
Run_binary_int(inst, cc, l, r, rt) ==
    CASE inst = "iadd" -> [vals |-> <<I64(l.v + r.v)>>, rt |-> rt]
      [] inst = "isub" -> [vals |-> <<I64(l.v - r.v)>>, rt |-> rt]
      [] inst = "imul" -> [vals |-> <<I64(l.v * r.v)>>, rt |-> rt]
      [] inst = "udiv" ->
            IF r.v = 0 THEN RtStop(rt, "trap: int_divz")
            ELSE IF l.v < 0 \/ r.v < 0 THEN RtStop(rt, "unsigned")
            ELSE [vals |-> <<I64(l.v \div r.v)>>, rt |-> rt]
      [] inst = "icmp" ->
            [vals |-> <<B1(CASE cc = "Equal" -> l.v = r.v
                             [] cc = "NotEqual" -> l.v # r.v
                             [] cc = "SignedGreaterThan" -> l.v > r.v
                             [] cc = "SignedGreaterThanOrEqual" -> l.v >= r.v
                             [] cc = "SignedLessThan" -> l.v < r.v
                             [] cc = "SignedLessThanOrEqual" -> l.v <= r.v)>>,
             rt |-> rt]

RECURSIVE Run(_, _, _)
RECURSIVE Run_block(_, _, _, _, _)
RECURSIVE Run_args(_, _, _, _, _)
RECURSIVE Run_while(_, _, _, _)

\* A block that keeps the value of its first child: what C14 rules out.
RECURSIVE Run_block_first(_, _, _, _, _)
Run_block_first(insts, n, value, rt, fx) ==
    LET on_r(r) ==
            Run_block_first(insts, n + 1, IF n = 1 THEN r.vals ELSE value, r.rt, fx)
    IN  IF rt.status # "ok" THEN [vals |-> <<>>, rt |-> rt]
        ELSE IF n > Len(insts) THEN [vals |-> value, rt |-> rt]
        ELSE on_r(Run(insts[n], rt, fx))

Run_block(insts, n, value, rt, fx) ==
    LET on_r(r) == Run_block(insts, n + 1, r.vals, r.rt, fx)
    IN  IF rt.status # "ok" THEN [vals |-> <<>>, rt |-> rt]
        ELSE IF n > Len(insts) THEN [vals |-> value, rt |-> rt]
        ELSE on_r(Run(insts[n], rt, fx))

Run_args(args, n, acc, rt, fx) ==
    LET on_r(r) == Run_args(args, n + 1, acc \o r.vals, r.rt, fx)
    IN  IF rt.status # "ok" \/ n > Len(args) THEN [vals |-> acc, rt |-> rt]
        ELSE on_r(Run(args[n], rt, fx))

Run_while(cond, body, rt, fx) ==
    LET on_c(c) ==
            IF c.rt.status # "ok" THEN c
            ELSE IF c.vals[1].v = 0 THEN [vals |-> <<I64(0)>>, rt |-> c.rt]
            ELSE Run_while(cond, body, Run(body, c.rt, fx).rt, fx)
    IN  IF rt.status # "ok" THEN [vals |-> <<>>, rt |-> rt]
        ELSE IF rt.fuel = 0 THEN RtStop(rt, "steps")
        ELSE on_c(Run(cond, [rt EXCEPT !.fuel = @ - 1], fx))

Run_binary(left, op, right, rt, fx) ==
    LET on_r(l, r) ==
            IF r.rt.status # "ok" THEN r ELSE
            IF ~Type_is_int(Expr_typ(left).ty) THEN RtStop(r.rt, "float")
            ELSE Run_binary_int(FnTranslator_binary_inst(TRUE, op), intcmp(op),
                                l.vals[1], r.vals[1], r.rt)
        on_l(l) ==
            IF l.rt.status # "ok" THEN l ELSE on_r(l, Run(right, l.rt, fx))
    IN  on_l(Run(left, rt, fx))

\* An if that runs its then branch whatever the condition is: what C16
\* rules out.
Run_if_then(cond, phi, then, els, rt, fx) ==
    LET on_b(b) ==
            IF b.rt.status # "ok" THEN b
            ELSE [vals |-> IF phi THEN b.vals ELSE <<>>, rt |-> b.rt]
        on_c(c) == IF c.rt.status # "ok" THEN c ELSE on_b(Run(then, c.rt, fx))
    IN  on_c(Run(cond, rt, fx))

Run_if(cond, phi, then, els, rt, fx) ==
    LET on_b(b) ==
            IF b.rt.status # "ok" THEN b
            ELSE [vals |-> IF phi THEN b.vals ELSE <<>>, rt |-> b.rt]
        on_c(c) ==
            IF c.rt.status # "ok" THEN c
            ELSE on_b(Run(IF c.vals[1].v = 0 THEN els ELSE then, c.rt, fx))
    IN  on_c(Run(cond, rt, fx))

\* A Variable that was never defined reads as zero.
Run_variable(index, typ, rt, fx) ==
    LET use(offset, n) ==
            [vals |-> [i \in 1..n |->
                          IF offset + i - 1 \in DOMAIN rt.vars THEN rt.vars[offset + i - 1]
                          ELSE [ty |-> fx.d.vars[offset + i - 1], v |-> 0]],
             rt |-> rt]
    IN  use(fx.d.local_offsets[index + 1], Len(translate_type(typ, fx.cs)))

Run_assign(index, value, typ, rt, fx) ==
    LET def(offset, v, n) ==
            IF v.rt.status # "ok" THEN v
            ELSE [vals |-> v.vals,
                  rt |-> [v.rt EXCEPT !.vars =
                             [x \in (DOMAIN @) \cup {offset + i : i \in 0..(n - 1)} |->
                                 IF x - offset \in 0..(n - 1) THEN v.vals[x - offset + 1]
                                 ELSE @[x]]]]
    IN  def(fx.d.local_offsets[index + 1], Run(value, rt, fx),
            Len(translate_type(typ, fx.cs)))

\* A call of the function with id `id`: a defined function runs in a new
\* frame with the Variables define_local defined; an imported one is the
\* host function of the symbol table.
Run_function(id, args, rt, fx) ==
    LET returned(r) == [vals |-> r.vals, rt |-> [r.rt EXCEPT !.vars = rt.vars]]
        enter(m, func, d) ==
            returned(Run(func.body,
                         [rt EXCEPT !.vars = [x \in d.defined |-> args[d.from[x] + 1]]],
                         [fx EXCEPT !.m = m, !.d = d]))
        defined(m, func) == enter(m, func, FnTranslator_declare_variables(func, fx.cs))
        host(s) == [vals |-> fx.syms[s].returns, rt |-> rt]
    IN  IF id \in DOMAIN fx.jit.code
        THEN defined(fx.jit.code[id].module,
                     fx.cs[fx.jit.code[id].module].module.funcs[fx.jit.code[id].func])
        ELSE host(CHOOSE s \in 1..Len(fx.syms) :
                      fx.syms[s].name = fx.jit.declared[id].name)

Run_call(callee, args, rt, fx) ==
    LET on_a(id, a) ==
            IF a.rt.status # "ok" THEN a
            ELSE IF a.rt.fuel = 0 THEN RtStop(a.rt, "steps")
            ELSE Run_function(id, a.vals, [a.rt EXCEPT !.fuel = @ - 1], fx)
        on_ref(c, ref) ==
            on_a(fx.cs[ref.module].module.funcs[ref.index + 1].ir[1],
                 Run_args(args, 1, <<>>, c.rt, fx))
        on_c(c) ==
            IF c.rt.status # "ok" THEN c ELSE on_ref(c, Expr_typ(callee).ty.ref)
    IN  on_c(Run(callee, rt, fx))

Run(expr, rt, fx) ==
    LET n == expr.inner IN
    CASE n.i = "Binary" -> Run_binary(n.left, n.op.kind, n.right, rt, fx)
      [] n.i = "Constant" ->
            [vals |-> <<CASE n.constant.k = "Bool" -> B1(n.constant.v)
                          [] n.constant.k = "Int" -> I64(n.constant.v)
                          [] n.constant.k = "Float" -> [ty |-> "f64", lit |-> n.constant.v]
                          [] n.constant.k = "Function" -> I64(0)>>,
             rt |-> rt]
      [] n.i = "Block" -> Run_block(n.exprs, 1, <<>>, rt, fx)
      [] n.i = "If" -> Run_if(n.cond, n.phi, n.then, n.els, rt, fx)
      [] n.i = "While" -> Run_while(n.cond, n.body, rt, fx)
      [] n.i = "Variable" -> Run_variable(n.index, n.typ, rt, fx)
      [] n.i = "Assign" -> Run_assign(n.store.inner.index, n.value, n.store.inner.typ, rt, fx)
      [] n.i = "Call" -> Run_call(n.callee, n.args, rt, fx)

(***************************************************************************)
(* The JIT steps of execute_module and execute_path.                       *)
(***************************************************************************)
\* jit.jit_module(module) for module comp.
JitModule ==
    LET done(tr) ==
            /\ jit' = tr.jit
            /\ compilers' = tr.compilers
            /\ IF tr.panic # "" THEN Panic(tr.panic) /\ UNCHANGED comp
               ELSE /\ UNCHANGED panic
                    /\ IF comp < Len(compilers)
                       THEN comp' = comp + 1 /\ pc' = "jit"
                       ELSE UNCHANGED comp /\ pc' = "exec"
    IN
    /\ pc = "jit"
    /\ done(JIT_jit_module([jit EXCEPT !.entered = TRUE], compilers, comp, symbols))
    /\ UNCHANGED <<smol, drive, shell, loop, api, symbols, files, file, parser, modules, errors, err_calls, result>>

\* What a caller can read as the T of exec::<T> when the function
\* returned nothing: whatever the return register held.
Garbage == {0, 1}

\* Ok(jit.exec("main")).
Exec ==
    LET returned(r) ==
            /\ jit' = [jit EXCEPT !.main_called = TRUE]
            /\ UNCHANGED panic
            /\ pc' = "done"
            /\ IF r.rt.status # "ok"
               THEN result' = <<[ok |-> TRUE, stopped |-> r.rt.status]>>
               ELSE IF r.vals = <<>>
               THEN \E g \in Garbage :
                        result' = <<[ok |-> TRUE, value |-> I64(g), unit |-> TRUE]>>
               ELSE result' = <<[ok |-> TRUE, value |-> r.vals[1], unit |-> FALSE]>>
        call(id) ==
            IF id \notin jit.defined
                 /\ ~\E s \in 1..Len(symbols) : symbols[s].name = "main"
            THEN /\ Panic("function must be compiled before it can be finalized")
                 /\ UNCHANGED <<jit, result>>
            ELSE returned(Run_function(id, <<>>,
                              [vars |-> <<>>, fuel |-> MaxSteps, status |-> "ok"],
                              [m |-> 0, d |-> <<>>, cs |-> compilers, jit |-> jit,
                               syms |-> symbols]))
        hits == {n \in 1..Len(jit.declared) : jit.declared[n].name = "main"}
    IN
    /\ pc = "exec"
    /\ IF hits = {}
       THEN /\ Panic("called Option::unwrap() on a None value")
            /\ UNCHANGED <<jit, result>>
       ELSE call(CHOOSE n \in hits : TRUE)
    /\ UNCHANGED <<smol, drive, shell, loop, api, symbols, files, file, parser, modules, errors, compilers, comp,
                   err_calls>>

Next ==
    \/ ParserNew
    \/ ParseStep
    \/ ParseFinish
    \/ Collected
    \/ DeclareClasses
    \/ DeclareFunctions
    \/ GenerateClasses
    \/ GenerateFunctions
    \/ Finish
    \/ JitModule
    \/ Exec

Spec == Init /\ [][Next]_vars

(***************************************************************************)
(* The run of main one basic block at a time, for a main whose body is a   *)
(* block with one while loop among its children.  while_expr               *)
(* (vm/function/exprs.rs) emits                                            *)
(*     jump head_b                                                         *)
(*   head_b:  the condition;  brz condition, cont_b;  jump body_b          *)
(*   body_b:  the body;  jump head_b                                       *)
(*   cont_b:  iconst 0, the value of the loop                              *)
(* and the children before the loop end the entry block, those after it    *)
(* follow in cont_b.  loop.block is the block the run stands in, loop.rt   *)
(* the frame; loop.tests and loop.runs count the condition tests and the   *)
(* runs of the body.                                                       *)
(***************************************************************************)
\* How far the generated loops count.
MaxCount == 4

\* `fun main() -> i64 { var a = s  while (a < l) { a = a + 1 }  a }`
CountSource(s, l) ==
    Main(RetI64, <<T_VAR, T_ID("a"), T_EQ, T_INT(<<s>>),
                   T_WHILE, T_LP, T_ID("a"), ComparisonOps[3], T_INT(<<l>>), T_RP,
                   T_LB, T_ID("a"), T_EQ, T_ID("a"), T_PLUS, T_INT(<<1>>), T_RB, T_ID("a")>>)

LoopSources ==
    {CountSource(s, l) : s, l \in 0..MaxCount} \cup {WhileSources[n] : n \in 1..Len(WhileSources)}

\* execute_module up to the JIT on a source that is the function main
\* alone: the ModuleCompiler after stage_1.
CompiledMain(toks) ==
    LET gen(m) == [module |-> ModuleCompiler_generate_functions(m, 1).module, errors |-> <<>>]
        decl(f) ==
            gen(ModuleCompiler_declare_functions(
                    Module_from_ast([functions |-> <<f.val>>, classes |-> <<>>,
                                     path |-> <<"script">>]), 1).module)
    IN  decl(Parser_function(toks, 2, FALSE))

\* The frame of main at its entry, and the children of its body.
LoopStart(c) ==
    [body |-> c.module.funcs[1].body.inner.exprs,
     at |-> CHOOSE n \in 1..Len(c.module.funcs[1].body.inner.exprs) :
                c.module.funcs[1].body.inner.exprs[n].inner.i = "While",
     fx |-> [m |-> 1, d |-> FnTranslator_declare_variables(c.module.funcs[1], <<c>>),
             cs |-> <<c>>, jit |-> jit, syms |-> symbols],
     block |-> "entry", rt |-> [vars |-> <<>>, fuel |-> MaxSteps, status |-> "ok"],
     tests |-> 0, runs |-> 0]

\* main has been compiled and is entered.
LoopInit ==
    /\ api = "execute_module"
    /\ \E toks \in LoopSources : files = <<toks>>
    /\ pc = "exec"
    /\ file = 1
    /\ parser = NoParser
    /\ modules = <<>>
    /\ errors = <<>>
    /\ compilers = <<CompiledMain(files[1])>>
    /\ comp = 1
    /\ err_calls = <<>>
    /\ symbols = <<>>
    /\ jit = [entered |-> TRUE, declared |-> <<>>, defined |-> {}, code |-> <<>>,
              main_called |-> TRUE]
    /\ result = <<>>
    /\ panic = ""
    /\ loop = LoopStart(compilers[1])
    /\ smol = NoSmol
    /\ drive = NoDrive
    /\ shell = NoShell

\* The entry block: the children before the loop, then `jump head_b`.
LoopEntry ==
    /\ loop.block = "entry"
    /\ loop' = [loop EXCEPT
                   !.block = "head",
                   !.rt = Run_block(SubSeq(loop.body, 1, loop.at - 1), 1, <<>>,
                                    loop.rt, loop.fx).rt]
    /\ UNCHANGED <<smol, drive, shell, api, symbols, files, pc, file, parser, modules, errors, compilers, comp,
                   err_calls, jit, result, panic>>

\* A head block that jumps to body_b without its test the first time.
LoopHead_untested ==
    /\ loop.block = "head"
    /\ loop' = [loop EXCEPT
                   !.tests = @ + 1,
                   !.block = IF loop.tests > 0
                                /\ Run(loop.body[loop.at].inner.cond, loop.rt, loop.fx)
                                       .vals[1].v = 0
                             THEN "cont" ELSE "body"]
    /\ UNCHANGED <<smol, drive, shell, api, symbols, files, pc, file, parser, modules, errors, compilers, comp,
                   err_calls, jit, result, panic>>

\* head_b: the condition, `brz condition_value, cont_b`, `jump body_b`.
LoopHead ==
    /\ loop.block = "head"
    /\ loop' = [loop EXCEPT
                   !.tests = @ + 1,
                   !.block = IF Run(loop.body[loop.at].inner.cond, loop.rt, loop.fx)
                                    .vals[1].v = 0
                             THEN "cont" ELSE "body"]
    /\ UNCHANGED <<smol, drive, shell, api, symbols, files, pc, file, parser, modules, errors, compilers, comp,
                   err_calls, jit, result, panic>>

\* body_b: the body, then `jump head_b`.
LoopBody ==
    /\ loop.block = "body"
    /\ loop' = [loop EXCEPT
                   !.runs = @ + 1,
                   !.block = "head",
                   !.rt = Run(loop.body[loop.at].inner.body, loop.rt, loop.fx).rt]
    /\ UNCHANGED <<smol, drive, shell, api, symbols, files, pc, file, parser, modules, errors, compilers, comp,
                   err_calls, jit, result, panic>>

\* cont_b: the loop's value, `iconst 0`, then the children after the loop;
\* main returns the value of the last one.
LoopCont ==
    /\ loop.block = "cont"
    /\ loop' = [loop EXCEPT !.block = "return"]
    /\ result' = <<[ok |-> TRUE,
                    value |-> Run_block(loop.body, loop.at + 1, <<I64(0)>>,
                                        loop.rt, loop.fx).vals[1],
                    unit |-> FALSE]>>
    /\ pc' = "done"
    /\ UNCHANGED <<smol, drive, shell, api, symbols, files, file, parser, modules, errors, compilers, comp,
                   err_calls, jit, panic>>

LoopNext ==
    \/ LoopEntry
    \/ LoopHead
    \/ LoopBody
    \/ LoopCont

\* The emitted code is sequential: the block the run stands in is run.
LoopSpec == LoopInit /\ [][LoopNext]_vars /\ WF_vars(LoopNext)

(***************************************************************************)
(* SmolStr (smol_str.rs), the type of every name of the language.  A str   *)
(* is the sequence of its bytes: 10 is a newline, 32 a space.  SmolSpec    *)
(* makes two SmolStr values of two strings and compares them.              *)
(***************************************************************************)
INLINE_CAP == 22

N_NEWLINES == 32

N_SPACES == 128

WS == [n \in 1..(N_NEWLINES + N_SPACES) |-> IF n <= N_NEWLINES THEN 10 ELSE 32]

\* bytes[..k].iter().take_while(|b| b == '\n').count()
TakeNewlines(bytes, k) ==
    CHOOSE n \in 0..k :
        /\ \A m \in 1..n : bytes[m] = 10
        /\ n < k => bytes[n + 1] # 10

\* A Substring that keeps the length of the text and counts no newline.
Repr_new_spaces(text) ==
    IF Len(text) <= INLINE_CAP
    THEN [r |-> "Inline", len |-> Len(text) % 256,
          buf |-> [n \in 1..INLINE_CAP |-> IF n <= Len(text) THEN text[n] ELSE 0]]
    ELSE [r |-> "Substring", newlines |-> 0, spaces |-> Len(text)]

Repr_new(text) ==
    LET len == Len(text)
        substring(newlines) ==
            IF /\ len - newlines <= N_SPACES
               /\ \A n \in (newlines + 1)..len : text[n] = 32
            THEN [r |-> "Substring", newlines |-> newlines, spaces |-> len - newlines]
            ELSE [r |-> "Heap", data |-> text]
    IN  IF len <= INLINE_CAP
        THEN [r |-> "Inline", len |-> len % 256,
              buf |-> [n \in 1..INLINE_CAP |-> IF n <= len THEN text[n] ELSE 0]]
        ELSE IF len <= N_NEWLINES + N_SPACES
        THEN substring(TakeNewlines(text, IF len < N_NEWLINES THEN len ELSE N_NEWLINES))
        ELSE [r |-> "Heap", data |-> text]

\* as_str; the assert! of the Substring arm is SubstringInWS.
SubstringInWS(repr) ==
    repr.r = "Substring" => repr.newlines <= N_NEWLINES /\ repr.spaces <= N_SPACES

Repr_as_str(repr) ==
    CASE repr.r = "Heap" -> repr.data
      [] repr.r = "Inline" -> SubSeq(repr.buf, 1, repr.len)
      [] repr.r = "Substring" ->
            SubSeq(WS, N_NEWLINES - repr.newlines + 1, N_NEWLINES + repr.spaces)

\* impl PartialEq<SmolStr> for SmolStr
SmolStr_eq(self, other) == Repr_as_str(self) = Repr_as_str(other)

\* The strings: newlines, then spaces, then a tail that is empty, a
\* letter, a zero byte, a newline, or a space and a letter.
Text(newlines, spaces, tail) ==
    [n \in 1..newlines |-> 10] \o [n \in 1..spaces |-> 32] \o tail

Texts ==
    {Text(i, j, tail) :
        i \in {0, 1, N_NEWLINES, N_NEWLINES + 1},
        j \in {0, 1, INLINE_CAP, INLINE_CAP + 1, N_SPACES, N_SPACES + 1},
        tail \in {<<>>, <<97>>, <<0>>, <<10>>, <<32, 97>>}}

SmolInit ==
    /\ \E s, t \in Texts : smol = [at |-> "text", s |-> s, t |-> t]
    /\ api = "none" /\ files = <<>> /\ pc = "none" /\ file = 1
    /\ parser = NoParser /\ modules = <<>> /\ errors = <<>> /\ compilers = <<>>
    /\ comp = 1 /\ err_calls = <<>> /\ symbols = <<>>
    /\ jit = [entered |-> FALSE, declared |-> <<>>, defined |-> {}, code |-> <<>>,
              main_called |-> FALSE]
    /\ result = <<>> /\ panic = "" /\ loop = NoLoop
    /\ drive = NoDrive /\ shell = NoShell

\* SmolStr::new on both strings.
SmolStr_new ==
    /\ smol.at = "text"
    /\ smol' = [at |-> "made", s |-> smol.s, t |-> smol.t,
                a |-> Repr_new(smol.s), b |-> Repr_new(smol.t)]
    /\ UNCHANGED <<lang_vars, drive, shell>>

\* a == b, and as_str of both.
SmolStr_compare ==
    /\ smol.at = "made"
    /\ smol' = [at |-> "compared", s |-> smol.s, t |-> smol.t, a |-> smol.a, b |-> smol.b,
                eq |-> SmolStr_eq(smol.a, smol.b),
                a_str |-> Repr_as_str(smol.a), b_str |-> Repr_as_str(smol.b)]
    /\ UNCHANGED <<lang_vars, drive, shell>>

SmolNext == SmolStr_new \/ SmolStr_compare

SmolSpec == SmolInit /\ [][SmolNext]_vars

(***************************************************************************)
(* The ATA PIO driver of the kernel (drivers/disk/ata_pio.rs).  The disk   *)
(* is the function from byte addresses to bytes; the device moves whole    *)
(* sectors of 256 little-endian words through the data port, starting at   *)
(* the LBA and for the sector count that before_read_write programmed.     *)
(* A buffer is a function from 0..len-1 to bytes.  The model keeps the     *)
(* first DiskSectors sectors of the disk; the bytes behind them are the    *)
(* ones the disk had before, which no write of the model reaches.          *)
(***************************************************************************)
SectorSize == 512

DiskSectors == 4

\* The byte the disk holds at an address before the test.
ActualByte(b) == (b * 7 + 3) % 251

DiskByte(disk, b) == IF b \in DOMAIN disk THEN disk[b] ELSE ActualByte(b)

Lo(word) == word % 256

Hi(word) == word \div 256

\* value & 511 == 0
AtaDrive_is_sector_aligned(value) == value % SectorSize = 0

AtaDrive_pos_aligned(self) == AtaDrive_is_sector_aligned(self.position)

AtaDrive_calc_lba(self) == self.position \div SectorSize

\* The sum is a sum of u8: `overflow` tells that it does not fit, and
\* count is the sum as the wrapping addition gives it.
AtaDrive_min_required_sector_count(self, bytes) ==
    LET sector_aligned == AtaDrive_is_sector_aligned(bytes) /\ bytes # 0
        bleeds_into_next ==
            IF sector_aligned THEN ~AtaDrive_pos_aligned(self)
            ELSE (self.position % SectorSize) + (bytes % SectorSize) > SectorSize
        sum(q, b, n) == [count |-> (q + b + n) % 256, overflow |-> q + b + n > 255]
    IN  sum((bytes \div SectorSize) % 256,
            IF bleeds_into_next THEN 1 ELSE 0,
            IF sector_aligned THEN 0 ELSE 1)

\* The word the device delivers or takes as word number w from the LBA.
DiskWord(disk, lba, w) ==
    DiskByte(disk, lba * SectorSize + 2 * w) + 256 * DiskByte(disk, lba * SectorSize + 2 * w + 1)

\* read_sector: the 256 words of the sector the position is in.
AtaDrive_read_sector(self, disk) ==
    [word \in 0..(SectorSize \div 2 - 1) |-> DiskWord(disk, AtaDrive_calc_lba(self), word)]

\* Option: <<>> or <<sector>>.
AtaDrive_read_sector_if_unaligned(self, disk) ==
    IF ~AtaDrive_pos_aligned(self) THEN <<AtaDrive_read_sector(self, disk)>> ELSE <<>>

AtaDrive_get_partial_write_sectors(self, disk, len) ==
    [start |-> AtaDrive_read_sector_if_unaligned(self, disk),
     end |-> AtaDrive_read_sector_if_unaligned(
                 [self EXCEPT !.position = self.position + len], disk)]

\* The match of write for one word: the word sent to the data port, or
\* -1 when the arm unwraps a sector that was not read.
AtaDrive_write_word(index, word, buf, buf_len, start_sector, end_sector) ==
    CASE index = -1 ->
            IF start_sector = <<>> THEN -1
            ELSE Lo(start_sector[1][word]) + buf[0] * 256
      [] index < -1 ->
            IF start_sector = <<>> THEN -1 ELSE start_sector[1][word]
      [] index >= 0 /\ index + 1 < buf_len -> buf[index] + buf[index + 1] * 256
      [] index >= 0 /\ index + 1 >= buf_len /\ index < buf_len ->
            IF end_sector = <<>> THEN -1
            ELSE buf[index] + Hi(end_sector[1][word]) * 256
      [] OTHER ->
            IF end_sector = <<>> THEN -1 ELSE end_sector[1][word]

\* write: the words of sector_count sectors go to the disk from the LBA
\* of the position on; then the position advances.
AtaDrive_write(self, disk, buf, buf_len) ==
    LET sector_offset == self.position % SectorSize
        lba == AtaDrive_calc_lba(self)
        words(n, partial) ==
            [w \in 0..(n * (SectorSize \div 2) - 1) |->
                AtaDrive_write_word(2 * w - sector_offset, w % (SectorSize \div 2),
                                    buf, buf_len, partial.start, partial.end)]
        sent(n, ws) ==
            IF \E w \in DOMAIN ws : ws[w] = -1
            THEN [self |-> self, disk |-> disk,
                  panic |-> "called Option::unwrap() on a None value"]
            ELSE [self |-> [self EXCEPT !.position = self.position + buf_len],
                  disk |-> [b \in DOMAIN disk |->
                               IF b >= lba * SectorSize /\ b < (lba + n) * SectorSize
                               THEN IF b % 2 = 0
                                    THEN Lo(ws[(b - lba * SectorSize) \div 2])
                                    ELSE Hi(ws[(b - lba * SectorSize) \div 2])
                               ELSE disk[b]],
                  panic |-> ""]
        on_count(n) ==
            sent(n, words(n, AtaDrive_get_partial_write_sectors(self, disk, buf_len)))
    IN  on_count(AtaDrive_min_required_sector_count(self, buf_len).count)

\* The match of read for one word: the bytes of buf it sets, as
\* <<position, byte>> pairs.
AtaDrive_read_word(index, read, buf_len) ==
    CASE index = -1 -> {<<0, Hi(read)>>}
      [] index < -1 -> {}
      [] index >= 0 /\ index + 1 < buf_len -> {<<index, Lo(read)>>, <<index + 1, Hi(read)>>}
      [] index >= 0 /\ index + 1 >= buf_len /\ index < buf_len -> {<<index, Lo(read)>>}
      [] OTHER -> {}

\* read: buf after the loop over sector_count sectors.  Byte i of buf is
\* set by the word with index i or i - 1, if that word is read at all.
AtaDrive_read(self, disk, buf, buf_len) ==
    LET sector_offset == self.position % SectorSize
        lba == AtaDrive_calc_lba(self)
        set_by(n, i, w) ==
            IF w >= n * (SectorSize \div 2) THEN {}
            ELSE {s \in AtaDrive_read_word(2 * w - sector_offset, DiskWord(disk, lba, w), buf_len) :
                     s[1] = i}
        byte(n, i, sets) == IF sets = {} THEN buf[i] ELSE (CHOOSE s \in sets : TRUE)[2]
        on_count(n) ==
            [self |-> [self EXCEPT !.position = self.position + buf_len],
             buf |-> [i \in 0..(buf_len - 1) |->
                         byte(n, i, set_by(n, i, (i + sector_offset) \div 2))]]
    IN  on_count(AtaDrive_min_required_sector_count(self, buf_len).count)

\* seek(SeekFrom::Current(by)): Err leaves the position.
AtaDrive_seek(self, by) ==
    IF self.position + by >= 0 THEN [self EXCEPT !.position = self.position + by] ELSE self

\* The bytes of the disk before the test, and the buffers written: 35 in
\* every byte (write_preserve), and bytes that differ from one another.
Actual == [b \in 0..(DiskSectors * SectorSize - 1) |-> ActualByte(b)]

Fills == {"same", "differing"}

Buffer(len, fill) ==
    [i \in 0..(len - 1) |-> IF fill = "same" THEN 35 ELSE 255 - ((i * 3) % 256)]

Positions == {0, 1, 100, 101, SectorSize - 1, SectorSize, SectorSize + 1}

Lengths == {1, 2, 3, 100, 101, SectorSize - 101, SectorSize - 100, SectorSize - 1,
            SectorSize, SectorSize + 1, 2 * SectorSize, 256 * SectorSize}

\* The byte counts of tests::correct_sector_count, and counts of 255
\* sectors and more.
ByteCounts ==
    Lengths \cup {200, 2000, 255 * SectorSize, 255 * SectorSize + 1}

\* AtaDrive::new: position 0.
DriveInit ==
    /\ drive = [at |-> "new", self |-> [position |-> 0], disk |-> Actual]
    /\ api = "none" /\ files = <<>> /\ pc = "none" /\ file = 1
    /\ parser = NoParser /\ modules = <<>> /\ errors = <<>> /\ compilers = <<>>
    /\ comp = 1 /\ err_calls = <<>> /\ symbols = <<>>
    /\ jit = [entered |-> FALSE, declared |-> <<>>, defined |-> {}, code |-> <<>>,
              main_called |-> FALSE]
    /\ result = <<>> /\ panic = "" /\ loop = NoLoop
    /\ smol = NoSmol /\ shell = NoShell

\* seek(SeekFrom::Start(pos))
DriveSeekStart ==
    /\ drive.at = "new"
    /\ \E pos \in Positions :
          drive' = [at |-> "sought", self |-> [position |-> pos], disk |-> drive.disk]
    /\ UNCHANGED <<lang_vars, smol, shell>>

\* min_required_sector_count(bytes): a sum that does not fit in u8 panics
\* in a build with overflow checks and wraps in one without.
DriveCount ==
    /\ drive.at = "sought"
    /\ \E bytes \in ByteCounts :
          LET counted(c) ==
                  \/ drive' = [at |-> "counted", self |-> drive.self, disk |-> drive.disk,
                               bytes |-> bytes, count |-> c.count, panic |-> ""]
                  \/ /\ c.overflow
                     /\ drive' = [at |-> "counted", self |-> drive.self, disk |-> drive.disk,
                                  bytes |-> bytes, count |-> 0,
                                  panic |-> "attempt to add with overflow"]
          IN  counted(AtaDrive_min_required_sector_count(drive.self, bytes))
    /\ UNCHANGED <<lang_vars, smol, shell>>

\* write(buf)
DriveWrite ==
    /\ drive.at = "sought"
    /\ \E len \in Lengths : \E fill \in Fills :
          LET written(w) ==
                  drive' = [at |-> "written", self |-> w.self, disk |-> w.disk,
                            from |-> drive.self.position, len |-> len, fill |-> fill,
                            panic |-> w.panic]
          IN  written(AtaDrive_write(drive.self, drive.disk, Buffer(len, fill), len))
    /\ UNCHANGED <<lang_vars, smol, shell>>

\* seek(SeekFrom::Current(-len)) after the write
DriveSeekBack ==
    /\ drive.at = "written" /\ drive.panic = ""
    /\ drive' = [drive EXCEPT !.at = "back", !.self = AtaDrive_seek(drive.self, 0 - drive.len)]
    /\ UNCHANGED <<lang_vars, smol, shell>>

\* read(verify_buf) into a buffer of zeroes
DriveRead ==
    /\ drive.at = "back"
    /\ LET read(r) ==
               drive' = [at |-> "read", self |-> r.self, disk |-> drive.disk,
                         from |-> drive.from, len |-> drive.len, fill |-> drive.fill,
                         panic |-> "", verify_buf |-> r.buf]
       IN  read(AtaDrive_read(drive.self, drive.disk,
                              [i \in 0..(drive.len - 1) |-> 0], drive.len))
    /\ UNCHANGED <<lang_vars, smol, shell>>

DriveNext == DriveSeekStart \/ DriveCount \/ DriveWrite \/ DriveSeekBack \/ DriveRead

DriveSpec == DriveInit /\ [][DriveNext]_vars

(***************************************************************************)
(* The line editor of the kernel shell (shell/mod.rs).  current_command    *)
(* is the sequence of the bytes of the String, a character the sequence    *)
(* of its UTF-8 bytes.  cursor_pos is a usize: a negative number n stands  *)
(* for 2^64 + n, the value a wrapping subtraction leaves, so that adding   *)
(* and subtracting 1 are the ones of the integers and only the order is    *)
(* the unsigned one.                                                       *)
(***************************************************************************)
MaxKeys == 5

Characters == {<<97>>, <<195, 169>>}

\* a < b for usize
UsizeLess(a, b) ==
    IF a < 0 THEN b < 0 /\ a < b ELSE b < 0 \/ a < b

UsizeMin(a, b) == IF UsizeLess(b, a) THEN b ELSE a

\* str::is_char_boundary
IsCharBoundary(s, idx) ==
    \/ idx = 0
    \/ idx = Len(s)
    \/ idx > 0 /\ idx < Len(s) /\ ~(s[idx + 1] >= 128 /\ s[idx + 1] < 192)

\* The length in bytes of the character that starts at byte idx (from 0).
CharLenAt(s, idx) ==
    IF s[idx + 1] < 128 THEN 1 ELSE IF s[idx + 1] < 224 THEN 2 ELSE IF s[idx + 1] < 240 THEN 3 ELSE 4

\* The index of the first byte of the last character.
RECURSIVE LastCharStart(_, _)
LastCharStart(s, idx) ==
    IF idx = 0 \/ IsCharBoundary(s, idx) THEN idx ELSE LastCharStart(s, idx - 1)

\* String::pop
String_pop(s) == IF s = <<>> THEN s ELSE SubSeq(s, 1, LastCharStart(s, Len(s) - 1))

\* String::remove: [s |-> the string, panic |-> the message or ""]
String_remove(s, idx) ==
    IF idx < 0 \/ idx >= Len(s)
    THEN [s |-> s, panic |-> "cannot remove a char from the end of a string"]
    ELSE IF ~IsCharBoundary(s, idx)
    THEN [s |-> s, panic |-> "byte index is not a char boundary"]
    ELSE [s |-> SubSeq(s, 1, idx) \o SubSeq(s, idx + CharLenAt(s, idx) + 1, Len(s)),
          panic |-> ""]

\* String::insert
String_insert(s, idx, ch) ==
    IF idx < 0 \/ idx > Len(s) \/ ~IsCharBoundary(s, idx)
    THEN [s |-> s, panic |-> "assertion failed: self.is_char_boundary(idx)"]
    ELSE [s |-> SubSeq(s, 1, idx) \o ch \o SubSeq(s, idx + 1, Len(s)), panic |-> ""]

Shell_cursor_at_end(self) == self.cursor_pos = Len(self.current_command)

\* Shell::new
Shell_new == [current_command |-> <<>>, cursor_pos |-> 0]

\* DecodedKey::Unicode('\x08').  The outcomes: the subtraction that does
\* not fit panics in a build with overflow checks and wraps in one without.
Shell_backspace(self) ==
    LET removed(r) ==
            IF r.panic # "" THEN {[self |-> self, panic |-> r.panic]}
            ELSE IF self.cursor_pos = 0
            THEN {[self |-> [self EXCEPT !.current_command = r.s],
                   panic |-> "attempt to subtract with overflow"],
                  [self |-> [current_command |-> r.s, cursor_pos |-> 0 - 1], panic |-> ""]}
            ELSE {[self |-> [current_command |-> r.s, cursor_pos |-> self.cursor_pos - 1],
                   panic |-> ""]}
    IN  IF Shell_cursor_at_end(self)
        THEN removed([s |-> String_pop(self.current_command), panic |-> ""])
        ELSE IF self.cursor_pos = 0
        THEN {[self |-> self, panic |-> "attempt to subtract with overflow"]}
             \cup removed(String_remove(self.current_command, 0 - 1))
        ELSE removed(String_remove(self.current_command, self.cursor_pos - 1))

\* DecodedKey::Unicode(character)
Shell_character(self, character) ==
    LET inserted(r) ==
            IF r.panic # "" THEN [self |-> self, panic |-> r.panic]
            ELSE [self |-> [current_command |-> r.s, cursor_pos |-> self.cursor_pos + 1],
                  panic |-> ""]
    IN  IF Shell_cursor_at_end(self)
        THEN inserted([s |-> self.current_command \o character, panic |-> ""])
        ELSE inserted(String_insert(self.current_command, self.cursor_pos, character))

\* DecodedKey::RawKey(KeyCode::ArrowLeft): checked_sub(1).unwrap_or(cursor_pos)
Shell_arrow_left(self) ==
    [self EXCEPT !.cursor_pos = IF self.cursor_pos = 0 THEN 0 ELSE self.cursor_pos - 1]

\* DecodedKey::RawKey(KeyCode::ArrowRight): min(78, cursor_pos + 1)
Shell_arrow_right(self) ==
    [self EXCEPT !.cursor_pos = UsizeMin(78, self.cursor_pos + 1)]

\* enter_pressed: no command of the model's characters parses to one that
\* is executed; the line is cleared.
Shell_enter_pressed(self) == [current_command |-> <<>>, cursor_pos |-> 0]

ShellInit ==
    /\ shell = [at |-> "shell", self |-> Shell_new, keys |-> 0, panic |-> ""]
    /\ api = "none" /\ files = <<>> /\ pc = "none" /\ file = 1
    /\ parser = NoParser /\ modules = <<>> /\ errors = <<>> /\ compilers = <<>>
    /\ comp = 1 /\ err_calls = <<>> /\ symbols = <<>>
    /\ jit = [entered |-> FALSE, declared |-> <<>>, defined |-> {}, code |-> <<>>,
              main_called |-> FALSE]
    /\ result = <<>> /\ panic = "" /\ loop = NoLoop
    /\ smol = NoSmol /\ drive = NoDrive

KeyHandled == shell.at = "shell" /\ shell.panic = "" /\ shell.keys < MaxKeys

ShellBackspace ==
    /\ KeyHandled
    /\ \E r \in Shell_backspace(shell.self) :
          shell' = [at |-> "shell", self |-> r.self, keys |-> shell.keys + 1, panic |-> r.panic]
    /\ UNCHANGED <<lang_vars, smol, drive>>

ShellCharacter ==
    /\ KeyHandled
    /\ \E character \in Characters :
          LET typed(r) ==
                  shell' = [at |-> "shell", self |-> r.self, keys |-> shell.keys + 1,
                            panic |-> r.panic]
          IN  typed(Shell_character(shell.self, character))
    /\ UNCHANGED <<lang_vars, smol, drive>>

ShellArrowLeft ==
    /\ KeyHandled
    /\ shell' = [shell EXCEPT !.self = Shell_arrow_left(shell.self), !.keys = shell.keys + 1]
    /\ UNCHANGED <<lang_vars, smol, drive>>

ShellArrowRight ==
    /\ KeyHandled
    /\ shell' = [shell EXCEPT !.self = Shell_arrow_right(shell.self), !.keys = shell.keys + 1]
    /\ UNCHANGED <<lang_vars, smol, drive>>

ShellEnter ==
    /\ KeyHandled
    /\ shell' = [shell EXCEPT !.self = Shell_enter_pressed(shell.self), !.keys = shell.keys + 1]
    /\ UNCHANGED <<lang_vars, smol, drive>>

\* DecodedKey::RawKey(key): the key is printed.
ShellRawKey ==
    /\ KeyHandled
    /\ shell' = [shell EXCEPT !.keys = shell.keys + 1]
    /\ UNCHANGED <<lang_vars, smol, drive>>

ShellNext ==
    \/ ShellBackspace \/ ShellCharacter \/ ShellArrowLeft \/ ShellArrowRight
    \/ ShellEnter \/ ShellRawKey

ShellSpec == ShellInit /\ [][ShellNext]_vars

(***************************************************************************)
(* Properties.                                                             *)
(***************************************************************************)
\* The call has ended: it returned, or it panicked.
Terminal == pc \in {"done", "panic"}

ReturnedErr == result # <<>> /\ ~result[1].ok

ReturnedOk == result # <<>> /\ result[1].ok

\* How many errors of a list have the given code.
CountKind(errs, code) == Cardinality({i \in 1..Len(errs) : errs[i].kind = code})

\* A pass of stage_1 returned Err(kind), which stage_1 unwrapped.
PassFailedWith(kind) == panic = "called Result::unwrap() on an Err value: " \o kind

\* Some diagnostic was produced: by a parser, by a pass, or handed to err().
Diagnosed ==
    \/ parser.errors # <<>>
    \/ errors # <<>>
    \/ err_calls # <<>>
    \/ PassFailedWith("E200")
    \/ PassFailedWith("E201")

\* The subexpressions of an IR expression, itself first.
RECURSIVE SubExprs(_)
RECURSIVE SubExprsOf(_, _)
SubExprsOf(exprs, n) ==
    IF n > Len(exprs) THEN <<>> ELSE SubExprs(exprs[n]) \o SubExprsOf(exprs, n + 1)

SubExprs(e) ==
    LET n == e.inner IN
    <<e>> \o
    CASE n.i = "Binary" -> SubExprs(n.left) \o SubExprs(n.right)
      [] n.i = "Block" -> SubExprsOf(n.exprs, 1)
      [] n.i = "If" -> SubExprs(n.cond) \o SubExprs(n.then) \o SubExprs(n.els)
      [] n.i = "While" -> SubExprs(n.cond) \o SubExprs(n.body)
      [] n.i = "Assign" -> SubExprs(n.store) \o SubExprs(n.value)
      [] n.i = "Call" -> SubExprs(n.callee) \o SubExprsOf(n.args, 1)
      [] OTHER -> <<>>

\* The If nodes of the IR expression e that was compiled from the AST
\* expression a, each with whether its source has an else branch.
RECURSIVE IfNodes(_, _)
RECURSIVE IfNodesOf(_, _, _)
IfNodesOf(as, es, n) ==
    IF n > Len(as) \/ n > Len(es) THEN <<>>
    ELSE IfNodes(as[n], es[n]) \o IfNodesOf(as, es, n + 1)

IfNodes(a, e) ==
    LET n == e.inner IN
    CASE a.e = "If" /\ n.i = "If" ->
            <<[has_else |-> a.els # <<>>, node |-> e]>>
            \o IfNodes(a.cond, n.cond) \o IfNodes(a.then, n.then)
            \o (IF a.els # <<>> THEN IfNodes(a.els[1], n.els) ELSE <<>>)
      [] a.e = "Block" /\ n.i = "Block" -> IfNodesOf(a.exprs, n.exprs, 1)
      [] a.e = "Binary" /\ n.i = "Binary" ->
            IfNodes(a.left, n.left) \o IfNodes(a.right, n.right)
      [] a.e = "Binary" /\ n.i = "Assign" ->
            IfNodes(a.left, n.store) \o IfNodes(a.right, n.value)
      [] a.e = "While" /\ n.i = "While" ->
            IfNodes(a.cond, n.cond) \o IfNodes(a.body, n.body)
      [] a.e = "Variable" /\ n.i = "Assign" -> IfNodes(a.value, n.value)
      [] a.e = "Call" /\ n.i = "Call" ->
            IfNodes(a.callee, n.callee) \o IfNodesOf(a.args, n.args, 1)
      [] OTHER -> <<>>

\* The functions of all modules that have a body: <<module, function>>.
Bodies ==
    {mf \in UNION {{<<c, f>> : f \in 1..Len(compilers[c].module.funcs)} :
                      c \in 1..Len(compilers)} :
        compilers[mf[1]].module.funcs[mf[2]].ast.body # <<>>}

\* The compile step handed its modules on to the JIT.
CompileSucceeded == pc \in {"jit", "exec"} \/ jit.entered

\* C1: the JIT stage is entered only after parsing and compilation ended
\* with empty diagnostics lists; and when any module produced a parse or a
\* compile diagnostic, the call returns the diagnostics as Err and neither
\* enters the JIT nor invokes main.
C1_JitOnlyAfterCleanCompile ==
    /\ jit.entered =>
          /\ parser.errors = <<>>
          /\ errors = <<>>
          /\ \A c \in 1..Len(compilers) : compilers[c].errors = <<>>
    /\ (Terminal /\ Diagnosed) => (ReturnedErr /\ ~jit.entered /\ ~jit.main_called)

\* The types of Operands, "" for the unknown identifier.
OperandTypes == <<"I64", "I64", "Bool", "F64", "">>

\* `fun main() -> i64 { l op r }` with typed operands of different types.
MixedSources ==
    {Main(RetI64, <<Operands[l], InfixOps[o], Operands[r]>>) :
        <<l, o, r>> \in {x \in (1..Len(Operands)) \X (1..Len(InfixOps)) \X (1..Len(Operands)) :
                            /\ OperandTypes[x[1]] # "" /\ OperandTypes[x[3]] # ""
                            /\ OperandTypes[x[1]] # OperandTypes[x[3]]}}

\* C2: for a function whose body is a binary expression with operands of
\* different types, such as `5 + true`, execute_module returns a failure
\* whose error list holds exactly one E500, and the JIT is not invoked.
C2_MixedOperandsRejected ==
    (api = "execute_module" /\ files[1] \in MixedSources /\ Terminal) =>
        /\ ReturnedErr
        /\ CountKind(result[1].err, "E500") = 1
        /\ ~jit.entered

\* The names of the top-level declarations the parser delivered, in order.
DeclaredNames ==
    [i \in 1..Len(parser.classes) |-> parser.classes[i].name.lex]
    \o [i \in 1..Len(parser.functions) |-> parser.functions[i].name.lex]

\* Exactly two of the module's top-level declarations have the same name.
OneDuplicate ==
    Cardinality({ij \in (1..Len(DeclaredNames)) \X (1..Len(DeclaredNames)) :
                    ij[1] < ij[2] /\ DeclaredNames[ij[1]] = DeclaredNames[ij[2]]}) = 1

\* C3: compiling a module with two top-level declarations of the same name
\* ends with a returned error list that holds exactly one E201; the call
\* returns the list and does not abort.
C3_DuplicateNameReported ==
    (api = "execute_module" /\ parser.errors = <<>> /\ OneDuplicate /\ Terminal) =>
        /\ pc # "panic"
        /\ ReturnedErr
        /\ CountKind(result[1].err, "E201") = 1

\* The type names a signature may use: the primitive types and the
\* classes of the module.
KnownTypes ==
    {"bool", "i64", "f64"} \cup {parser.classes[i].name.lex : i \in 1..Len(parser.classes)}

\* The signature of the AST function names a type that does not exist.
UnknownTypeIn(func) ==
    \/ \E i \in 1..Len(func.params) : func.params[i].ty.name.lex \notin KnownTypes
    \/ func.ret_type # <<>> /\ func.ret_type[1].name.lex \notin KnownTypes

\* C4: no pass stops at its first error: when the signature of a
\* top-level function names an unknown type, the E200 is recorded and
\* returned in the error list, and every top-level function of the module
\* is still declared.
C4_PassesDoNotStopAtFirstError ==
    (/\ api = "execute_module" /\ parser.errors = <<>> /\ ~OneDuplicate /\ Terminal
     /\ \E i \in 1..Len(parser.functions) : UnknownTypeIn(parser.functions[i])) =>
        /\ pc # "panic"
        /\ ReturnedErr
        /\ CountKind(result[1].err, "E200") >= 1
        /\ \A i \in 1..Len(parser.functions) :
              \E f \in 1..Len(compilers[1].module.funcs) :
                  compilers[1].module.funcs[f].name = parser.functions[i].name.lex

\* C5: a Poison subexpression triggers no further diagnostic: no E500 for
\* a Poison operand, no E501 on Poison, no E502 for a Poison condition, no
\* E506 for a Poison callee and no E508 for a Poison argument.
C5_PoisonAbsorbsErrors ==
    \A i \in 1..Len(err_calls) :
        LET k == err_calls[i].kind IN
        /\ k.code = "E500" => (k.left # "Poison" /\ k.right # "Poison")
        /\ k.code = "E501" => k.ty # "Poison"
        /\ k.code = "E502" => k.on # "Poison"
        /\ k.code = "E506" => k.ty # "Poison"
        /\ k.code = "E508" => k.found # "Poison"

\* The signed comparison of two integers.
SignedCompare(op, l, r) ==
    CASE op = "EqualEqual" -> l = r
      [] op = "BangEqual" -> l # r
      [] op = "Less" -> l < r
      [] op = "LessEqual" -> l <= r
      [] op = "Greater" -> l > r
      [] op = "GreaterEqual" -> l >= r

\* C6: for two I64 operands each of ==, !=, <, <=, >, >= passes the type
\* check without a diagnostic, the Binary node has type Bool, and at run
\* time it is the signed comparison of the operands.
C6_IntComparison ==
    \A n \in 1..Len(CompareCases) :
        (api = "execute_module" /\ files[1] = CompareSources[n] /\ Terminal) =>
            /\ err_calls = <<>>
            /\ pc = "done"
            /\ Expr_typ(compilers[1].module.funcs[1].body).ty = TBool
            /\ ReturnedOk
            /\ result[1].value = B1(SignedCompare(CompareCases[n].op.kind,
                                                  CompareCases[n].l.v, CompareCases[n].r.v))

\* The variables of a function: its parameters, then its locals.
VarsOf(func) == func.params \o func.locals

\* C7: in every IR function locals[i].index = i (counted from 0), no two
\* variables of the function (parameters and locals) have the same index,
\* and the JIT gives distinct variables distinct backend slots.
C7_DistinctVariableSlots ==
    \A mf \in Bodies :
        LET func == compilers[mf[1]].module.funcs[mf[2]]
            vs == VarsOf(func)
            d == FnTranslator_declare_variables(func, compilers)
        IN  /\ \A i \in 1..Len(func.locals) : func.locals[i].index = i - 1
            /\ \A i, j \in 1..Len(vs) : i # j => vs[i].index # vs[j].index
            /\ \A i, j \in 1..Len(vs) :
                  (/\ i # j /\ d.panic = ""
                   /\ translate_type(vs[i].ty, compilers) # <<>>
                   /\ translate_type(vs[j].ty, compilers) # <<>>) =>
                      d.local_offsets[vs[i].index + 1] # d.local_offsets[vs[j].index + 1]

\* C8: for every If node the compiler builds, phi is set exactly if the
\* source has an else branch and the then and else branches have the same
\* type, which is not Void.
C8_PhiIffSharedNonVoidType ==
    \A mf \in Bodies :
        LET func == compilers[mf[1]].module.funcs[mf[2]]
            ifs == IfNodes(func.ast.body[1], func.body)
        IN  \A i \in 1..Len(ifs) :
                LET n == ifs[i].node.inner IN
                n.phi <=> /\ ifs[i].has_else
                          /\ Expr_typ(n.then).ty = Expr_typ(n.els).ty
                          /\ Expr_typ(n.then).ty # TVoid

\* C9: in every IR module the compiler returns as a success, every Call
\* node's callee has a Function type, and its arguments are as many as the
\* parameters of that function and have their types, position by position.
C9_CallsMatchSignature ==
    CompileSucceeded =>
        \A mf \in Bodies :
            LET es == SubExprs(compilers[mf[1]].module.funcs[mf[2]].body) IN
            \A i \in 1..Len(es) :
                es[i].inner.i = "Call" =>
                    LET ct == Expr_typ(es[i].inner.callee).ty
                        args == es[i].inner.args
                    IN  /\ ct.t = "Function"
                        /\ LET params == compilers[ct.ref.module].module
                                             .funcs[ct.ref.index + 1].params
                           IN  /\ Len(args) = Len(params)
                               /\ \A k \in 1..Len(args) :
                                     Expr_typ(args[k]).ty = params[k].ty

\* Declarations with a parse error inside, and well-formed ones with
\* their names.
BrokenDecls == {Decls[9], Decls[10], Decls[12]}

WellFormedDecls ==
    {[toks |-> EmptyFn("foo"), name |-> "foo"], [toks |-> Decls[7], name |-> "Pt"]}

\* C10: after a parse error inside a top-level declaration the parser has
\* recorded one diagnostic and resumes at the next `fun` or `class`: a
\* following well-formed declaration is parsed and adds no diagnostic.
C10_ParserResumesAtNextDeclaration ==
    \A b \in BrokenDecls : \A g \in WellFormedDecls :
        (api = "execute_module" /\ files[1] = b \o g.toks /\ Terminal) =>
            /\ Len(parser.errors) = 1
            /\ \E i \in 1..Len(DeclaredNames) : DeclaredNames[i] = g.name

\* Sources that are well-formed under the grammar: the empty module (what
\* the lexer makes of a source that is empty or holds only whitespace and
\* comments: no token at all), and the well-formed programs of the tests.
WellFormedSources ==
    {<<>>} \cup {TestSources[n] : n \in 1..5} \cup {EmptyFn("foo"), Decls[7]}

\* The parser has ended on the file, one way or the other.
ParseEnded == pc \notin {"new", "parse"}

\* C11: parsing a well-formed input, the empty module included, terminates
\* and returns an AST module with zero diagnostics.
C11_WellFormedParsesClean ==
    (api = "execute_module" /\ files[1] \in WellFormedSources /\ ParseEnded) =>
        /\ parser.errors = <<>>
        /\ pc # "panic" \/ panic # "called Option::unwrap() on a None value"
        /\ compilers # <<>>

\* The order of the infix operators, from the loosest to the tightest.
PrecedenceOrder ==
    << {"Equal"}, {"Or"}, {"And"}, {"EqualEqual", "BangEqual"},
       {"Less", "LessEqual", "Greater", "GreaterEqual", "Plus", "Minus"},
       {"Star", "Slash"}, {"Is"} >>

Rank(op) == CHOOSE i \in 1..Len(PrecedenceOrder) : op.kind \in PrecedenceOrder[i]

\* An AST expression of identifiers and operators with all its parentheses.
RECURSIVE Grouping(_)
Grouping(a) ==
    CASE a.e = "Binary" ->
            "(" \o Grouping(a.left) \o " " \o a.op.lex \o " " \o Grouping(a.right) \o ")"
      [] a.e = "Unary" -> "(" \o a.op.lex \o " " \o Grouping(a.right) \o ")"
      [] a.e = "Identifier" -> a.tok.lex
      [] OTHER -> "?"

\* The parser is through with a file that is a single function, and this
\* is how it grouped the only expression of the function's body.
ParsedGrouping ==
    IF /\ ParseEnded /\ parser.errors = <<>> /\ Len(parser.functions) = 1
       /\ parser.functions[1].body # <<>>
       /\ parser.functions[1].body[1].e = "Block"
       /\ Len(parser.functions[1].body[1].exprs) = 1
    THEN Grouping(parser.functions[1].body[1].exprs[1])
    ELSE "?"

Chain(p, q) == Main(<<>>, <<T_ID("a"), p, T_ID("b"), q, T_ID("c")>>)

\* C12: for infix operators p and q where p binds less tightly than q,
\* `a p b q c` parses as `a p (b q c)` and `a q b p c` as `(a q b) p c`;
\* the operand of a prefix `-` or `!` does not include a following infix
\* operator.
C12_BindingPowerDecidesGrouping ==
    (api = "execute_module" /\ ParseEnded) =>
        /\ \A i, j \in 1..Len(AllInfix) :
              LET p == AllInfix[i]
                  q == AllInfix[j]
              IN  Rank(p) < Rank(q) =>
                    /\ files[1] = Chain(p, q) =>
                          ParsedGrouping = "(a " \o p.lex \o " (b " \o q.lex \o " c))"
                    /\ files[1] = Chain(q, p) =>
                          ParsedGrouping = "((a " \o q.lex \o " b) " \o p.lex \o " c)"
        /\ \A u \in 1..Len(Prefixes) : \A i \in 1..Len(AllInfix) :
              files[1] = Main(<<>>, <<Prefixes[u], T_ID("a"), AllInfix[i], T_ID("b")>>) =>
                  ParsedGrouping = "((" \o Prefixes[u].lex \o " a) " \o AllInfix[i].lex \o " b)"

\* `a + b * c`, `a * b + c` or `-a * b` has been parsed.
C12_Witness ==
    /\ api = "execute_module"
    /\ \/ files[1] = Chain(T_PLUS, T_STAR) /\ ParsedGrouping = "(a + (b * c))"
       \/ files[1] = Chain(T_STAR, T_PLUS) /\ ParsedGrouping = "((a * b) + c)"
       \/ files[1] = Main(<<>>, <<T_MINUS, T_ID("a"), T_STAR, T_ID("b")>>)
          /\ ParsedGrouping = "((- a) * b)"

\* What the names of an IR expression are bound to, in the order of the
\* source: the type of the variable, "Function" or "Poison".
RECURSIVE BindingsOf(_, _)
BindingsOf(es, n) ==
    IF n > Len(es) THEN <<>>
    ELSE (CASE es[n].inner.i = "Variable" -> <<es[n].inner.typ.t>>
            [] es[n].inner.i = "Poison" -> <<"Poison">>
            [] es[n].inner.i = "Constant" /\ es[n].inner.constant.k = "Function" ->
                  <<"Function">>
            [] OTHER -> <<>>)
         \o BindingsOf(es, n + 1)

Bindings(e) == BindingsOf(SubExprs(e), 1)

\* The calls of err() with the given code.
ErrCalls(code) == {i \in 1..Len(err_calls) : err_calls[i].kind.code = code}

\* The resolution of C13 without its diagnostic: the innermost binding of
\* the name, else the function of the module, else Poison.
ResolvesInnermostFirst ==
    (api = "execute_module" /\ pc = "finish") =>
        /\ files[1] = ScopeSources[1] =>
              Bindings(compilers[1].module.funcs[1].body)
                  = <<"I64", "Bool", "Bool", "Bool", "F64", "F64", "Bool">>
        /\ files[1] = ScopeSources[2] =>
              /\ Bindings(compilers[1].module.funcs[2].body)
                    = <<"Function", "I64", "I64", "Poison">>
              /\ Cardinality(ErrCalls("E503")) = 1

\* C13: an identifier resolves to the binding of its name in the innermost
\* environment that has one; only when no environment binds the name, to
\* the function of the module with that name; when neither exists the
\* result is a Poison node and exactly one E503 is reported.
C13_IdentifierResolution ==
    /\ ResolvesInnermostFirst
    /\ (api = "execute_module" /\ files[1] = ScopeSources[2] /\ Terminal) =>
          /\ ReturnedErr
          /\ CountKind(result[1].err, "E503") = 1

\* main returned the 64-bit integer v.
MainReturned(v) ==
    /\ pc = "done" /\ ReturnedOk
    /\ "value" \in DOMAIN result[1] /\ ~result[1].unit
    /\ result[1].value = I64(v)

\* C14: a non-empty block evaluates its children in the order of the
\* source, and its value is the value of the last child: the block of the
\* test `5 + 5  2 - 2  1` has the value 1.
C14_BlockValueIsLastChild ==
    (api = "execute_module" /\ Terminal) =>
        /\ files[1] = TestSources[1] => MainReturned(1)
        /\ \A n \in 1..Len(BlockCases) :
              files[1] = BlockSources[n] => MainReturned(BlockCases[n].value)

\* The block with the two assignments has run.
C14_Witness ==
    api = "execute_module" /\ files[1] = BlockSources[2] /\ MainReturned(6)

\* The greater of two numbers.
Max(a, b) == IF a > b THEN a ELSE b

\* C15: a while loop tests its condition before every iteration and runs
\* its body as long as the condition is true, zero times when it is false
\* at entry; the assignments of the body are seen by the next test and by
\* the code after the loop: `var a = 3  while (a < 10) { a = a + 1 }  a`
\* terminates with 10, and `var a = s  while (a < l) { a = a + 1 }  a`
\* with the greater of s and l after l - s runs of the body, or none.
C15_WhileRunsUntilConditionFalse ==
    /\ \A n \in 1..Len(WhileCases) :
          (files = <<WhileSources[n]>>) ~> MainReturned(WhileCases[n].value)
    /\ \A s, l \in 0..MaxCount :
          (files = <<CountSource(s, l)>>)
              ~> (/\ MainReturned(Max(s, l))
                  /\ loop.runs = Max(s, l) - s
                  /\ loop.tests = loop.runs + 1)

\* The loop of the test has ended with a = 10 after 7 runs of its body.
C15_Witness ==
    files = <<WhileSources[1]>> /\ MainReturned(10) /\ loop.runs = 7 /\ loop.tests = 8

\* C16: an `if` with both branches of the same non-void type executes
\* exactly one branch, the then branch when the condition is true and the
\* else branch otherwise, and yields the value of the branch it executed:
\* `if (true) 35 else 0` is 35 and `if (false) 35 else 0` is 0.
C16_IfYieldsExecutedBranch ==
    \A n \in 1..Len(IfCases) :
        (api = "execute_module" /\ files[1] = IfExprSources[n] /\ Terminal) =>
            MainReturned(IfCases[n].value)

\* An else branch has run, with its assignment and its value.
C16_Witness ==
    api = "execute_module" /\ files[1] = IfExprSources[5] /\ MainReturned(10)

\* Programs that store into variables and read them, with the value main
\* returns when every read yields the value last stored into the variable
\* read: `val a = 44  a`, `var a = 44  a = 4  a`,
\* `var a = 1  var b = 2  a = 5  b` of two locals (BlockSources has more),
\* and `fun f(a: i64) -> i64 { var b = 1  a }  fun main() -> i64 { f(7) }`,
\* where the store into b is no store into the parameter a.
StoreCases ==
    << [src |-> TestSources[3], value |-> 44],
       [src |-> TestSources[4], value |-> 4],
       [src |-> BlockSources[2], value |-> 6],
       [src |-> TestSources[5], value |-> 7] >>

\* C17: a read of a variable yields the value most recently stored into
\* it, by its declaration or by a later assignment, and a store into a
\* variable leaves the value of every other variable of the function
\* unchanged.
C17_ReadYieldsLastStore ==
    \A n \in 1..Len(StoreCases) :
        (api = "execute_module" /\ files[1] = StoreCases[n].src /\ Terminal) =>
            MainReturned(StoreCases[n].value)

\* C18: a call evaluates its arguments from left to right, binds the i-th
\* argument to the i-th parameter and has the value of the callee's body;
\* the variables of the caller are unchanged:
\* `fun add(a: i64, b: i64) -> i64 { a + b }  fun main() -> i64 { add(400, 22) }`
\* returns 422.
C18_CallBindsArguments ==
    (api = "execute_module" /\ files[1] = CallSources[3] /\ Terminal) => MainReturned(422)

\* The names of a sequence of members or functions of an AST class.
LexNames(decls) == [n \in 1..Len(decls) |-> decls[n].name.lex]

\* Pass 3 (generate_classes) has come to its end, whichever way.
PassThreeEnded ==
    /\ parser.errors = <<>>
    /\ pc \notin {"new", "parse", "declare_classes", "declare_functions", "generate_classes"}

\* The content map of class c of the module holds the members of the AST
\* class as Member entries with their ordinals, then the methods and the
\* static functions under their names.
ContentAsDeclared(ast, content) ==
    /\ Len(content) = Len(ast.members) + Len(ast.methods) + Len(ast.functions)
    /\ [n \in 1..Len(content) |-> content[n].key]
          = LexNames(ast.members) \o LexNames(ast.methods) \o LexNames(ast.functions)
    /\ \A n \in 1..Len(content) :
          IF n <= Len(ast.members)
          THEN content[n].value.c = "Member" /\ content[n].value.store.index = n - 1
          ELSE IF n <= Len(ast.members) + Len(ast.methods)
          THEN content[n].value.c = "Method"
          ELSE content[n].value.c = "Function"

\* C19: after pass 3 the content map of every class holds every member of
\* the class as a Member entry whose index is its declaration ordinal,
\* followed by every method and every static function under its name;
\* every Member entry precedes every Method and Function entry, also
\* when a method and a member have the same name.
C19_ClassContentAfterPassThree ==
    \A k \in 1..Len(ClassSources) :
        (api = "execute_module" /\ files[1] = ClassSources[k] /\ PassThreeEnded) =>
            /\ Len(compilers[1].module.classes) = Len(parser.classes)
            /\ \A c \in 1..Len(parser.classes) :
                  ContentAsDeclared(parser.classes[c],
                                    compilers[1].module.classes[c].content)

\* The IR functions of all modules, as <<module, function>>.
IrFunctions ==
    UNION {{<<m, f>> : f \in 1..Len(compilers[m].module.funcs)} : m \in 1..Len(compilers)}

\* The backend declaration of an IR function whose `ir` cell is filled is
\* its own: made once, under its name, exported iff the function has a
\* body and imported iff it has none.
DeclaredAsItself(func) ==
    /\ func.ir[1] \in 1..Len(jit.declared)
    /\ jit.declared[func.ir[1]].name = func.name
    /\ jit.declared[func.ir[1]].calls = 1
    /\ (jit.declared[func.ir[1]].linkage = "Export") <=> (func.ast.body # <<>>)
    /\ (jit.declared[func.ir[1]].linkage = "Import") <=> (func.ast.body = <<>>)

\* The host function `hello` of the symbol table is there to be called.
HelloGiven == \E s \in 1..Len(symbols) : symbols[s].name = "hello"

\* C20: every IR function is declared to the backend at most once and
\* under its own name, whether a call site or its own definition reaches
\* it first: exported iff it has a body, imported iff it is extern; two
\* IR functions never share a declaration; and a call of an extern
\* function runs the host function the symbol table gives for its name
\* and yields its result (hello() is 13, hello() + hello() is 26).
C20_DeclaredOnceUnderOwnName ==
    /\ \A mf \in IrFunctions :
          compilers[mf[1]].module.funcs[mf[2]].ir # <<>> =>
              DeclaredAsItself(compilers[mf[1]].module.funcs[mf[2]])
    /\ \A a, b \in IrFunctions :
          (/\ a # b
           /\ compilers[a[1]].module.funcs[a[2]].ir # <<>>
           /\ compilers[b[1]].module.funcs[b[2]].ir # <<>>) =>
              compilers[a[1]].module.funcs[a[2]].ir # compilers[b[1]].module.funcs[b[2]].ir
    /\ \A n \in 1..Len(jit.declared) :
          \E mf \in IrFunctions : compilers[mf[1]].module.funcs[mf[2]].ir = <<n>>
    /\ (api = "execute_module" /\ HelloGiven /\ Terminal) =>
          /\ files[1] = TestSources[13] => MainReturned(13)
          /\ \A n \in 1..Len(DeclareCases) :
                files[1] = DeclareCases[n].toks => MainReturned(DeclareCases[n].value)

\* An extern function and a function with a body, each called twice from
\* one main, each declared once.
C20_Witness ==
    /\ api = "execute_module" /\ pc = "done"
    /\ \/ files[1] = DeclareCases[1].toks /\ MainReturned(8)
          /\ jit.declared[2].name = "g" /\ jit.declared[2].linkage = "Export"
       \/ files[1] = DeclareCases[3].toks /\ MainReturned(26)
          /\ jit.declared[2].name = "hello" /\ jit.declared[2].linkage = "Import"

\* The IR expressions of the bodies, subexpressions included.
BodyExprs(mf) == SubExprs(compilers[mf[1]].module.funcs[mf[2]].body)

\* The cache cells of an expression and its subexpressions, in order.
Caches(e) == LET cells(s) == [n \in 1..Len(s) |-> s[n].ty] IN cells(SubExprs(e))

\* No cache that is filled in c differs in d.
CachesKept(c, d) ==
    /\ Len(d) = Len(c)
    /\ \A n \in 1..Len(c) : c[n] # <<>> => d[n] = c[n]

\* typ() on e, when it returns: the type is the cached one when there is
\* one, the node then holds the type in its cache and is otherwise what
\* it was, no cache that was filled before has changed, and further calls
\* return the same type and change nothing.
TypIsCached(e, r) ==
    r.ty # TPanic =>
        /\ e.ty # <<>> => r = [ty |-> e.ty[1], e |-> e]
        /\ r.e.ty = <<r.ty>>
        /\ r.e.inner.i = e.inner.i
        /\ CachesKept(Caches(e), Caches(r.e))
        /\ Expr_typ(r.e) = r
        /\ Expr_typ(Expr_typ(r.e).e) = r

\* A Call node has its cache filled from its construction on, with the
\* return type of the function it calls.
CallIsTyped(e) ==
    e.inner.i = "Call" =>
        /\ e.ty # <<>>
        /\ Expr_typ(e.inner.callee).ty.t = "Function" =>
              e.ty[1] = compilers[Expr_typ(e.inner.callee).ty.ref.module].module
                            .funcs[Expr_typ(e.inner.callee).ty.ref.index + 1].ret_type

\* C21: typ() on an IR expression returns the same type however often it
\* is called: the first call stores the type in the node's cache, a Call
\* node's cache holds the callee's return type from construction on, and
\* no call changes a type that is cached.
C21_TypIsCachedOnce ==
    LET all(s) == \A n \in 1..Len(s) :
                      TypIsCached(s[n], Expr_typ(s[n])) /\ CallIsTyped(s[n])
    IN  \A mf \in Bodies : all(BodyExprs(mf))

\* A compiled body holds a node whose cache is still empty and whose type
\* typ() computes, and a Call node.
C21_Witness ==
    LET some(s) ==
            /\ \E n \in 1..Len(s) : s[n].ty = <<>> /\ Expr_typ(s[n]).ty = TI64
            /\ \E n \in 1..Len(s) : s[n].inner.i = "Call" /\ s[n].ty = <<TI64>>
    IN  \E mf \in Bodies : some(BodyExprs(mf))

\* C22: SmolStr::new(s) == SmolStr::new(t) exactly when s and t are equal
\* byte for byte, and as_str() of SmolStr::new(s) is s, for the inline
\* representation (up to 22 bytes), the whitespace substring (newlines
\* followed by spaces) and the heap representation.
C22_SmolStrEqualityIsTextEquality ==
    /\ smol.at \in {"made", "compared"} => SubstringInWS(smol.a) /\ SubstringInWS(smol.b)
    /\ smol.at = "compared" =>
          /\ smol.eq <=> (smol.s = smol.t)
          /\ smol.a_str = smol.s
          /\ smol.b_str = smol.t

\* Two different strings in two different representations were compared,
\* the one a whitespace substring of more than 22 bytes.
C22_Witness ==
    /\ smol.at = "compared"
    /\ smol.a.r = "Substring" /\ smol.a.newlines = N_NEWLINES /\ smol.a.spaces = N_SPACES
    /\ smol.b.r = "Heap"
    /\ ~smol.eq

\* C23: two consecutive infix operators of the same precedence class
\* other than `=` group from left to right (`a - b - c` is `(a - b) - c`,
\* `a / b * c` is `(a / b) * c`); `a = b = c` is `a = (b = c)`.
C23_SameClassGroupsLeft ==
    (api = "execute_module" /\ ParseEnded) =>
        \A i, j \in 1..Len(AllInfix) :
            LET p == AllInfix[i]
                q == AllInfix[j]
            IN  (Rank(p) = Rank(q) /\ files[1] = Chain(p, q)) =>
                    IF p.kind = "Equal"
                    THEN ParsedGrouping = "(a = (b = c))"
                    ELSE ParsedGrouping = "((a " \o p.lex \o " b) " \o q.lex \o " c)"

\* The modules compiled and no diagnostic was produced or handed to err().
CompiledClean == CompileSucceeded /\ ~Diagnosed

\* C24: in every module that compiles without diagnostics the type of
\* each function's body equals the function's declared return type (Void
\* without `->`), so the translated body returns as many values as the
\* backend signature of the function has return values.
C24_BodyTypeIsReturnType ==
    CompiledClean =>
        \A mf \in Bodies :
            LET same(func) ==
                    /\ Expr_typ(func.body).ty = func.ret_type
                    /\ Len(translate_type(Expr_typ(func.body).ty, compilers))
                          = Len(make_fn_sig(func, compilers).returns)
            IN  same(compilers[mf[1]].module.funcs[mf[2]])

\* The panics of the arms of ExprCompiler::expr, Expr::get_type and
\* FnTranslator::trans_expr: the fallthrough arm, unimplemented!(), the
\* unwrap of the value of an empty block, intcmp and floatcmp, and the
\* Assign and Poison arms.
ExprPanics ==
    {"i can't compile this", "not implemented", "called Option::unwrap() on a None value",
     "unknown comparison operator", "Unknown assignment target!",
     "Cannot translate poison values!"}

\* Every function with a body has been translated and defined: a panic
\* after that is not one of the compiler or the translator.
AllTranslated ==
    \A mf \in Bodies :
        /\ compilers[mf[1]].module.funcs[mf[2]].ir # <<>>
        /\ compilers[mf[1]].module.funcs[mf[2]].ir[1] \in jit.defined

\* C25: for every program that the parser accepts and that compiles
\* without diagnostics, ExprCompiler::expr and FnTranslator::trans_expr
\* finish without a panic or unimplemented branch: a unary `-` or `!`, a
\* string literal, an empty block, `and` and `or` on Bool operands are
\* all compiled and lowered.
C25_NoPanicBranchReached ==
    (/\ api = "execute_module" /\ ParseEnded /\ parser.errors = <<>>
     /\ compilers # <<>> /\ err_calls = <<>> /\ ~AllTranslated) =>
        panic \notin ExprPanics

\* C26: during the four passes no step asks for a mutable borrow of a
\* module's RefCell while a shared borrow of the module is held: pass 3
\* completes for a class with a method, a static function or a member of
\* class type, and pass 4 for bodies that call functions.
C26_NoBorrowConflict ==
    panic \notin {"already borrowed: BorrowMutError", "already mutably borrowed: BorrowError"}

\* The subexpressions of an AST expression, itself first.
RECURSIVE AstExprs(_)
RECURSIVE AstExprsOf(_, _)
AstExprsOf(as, n) ==
    IF n > Len(as) THEN <<>> ELSE AstExprs(as[n]) \o AstExprsOf(as, n + 1)

AstExprs(a) ==
    <<a>> \o
    CASE a.e = "Binary" -> AstExprs(a.left) \o AstExprs(a.right)
      [] a.e = "Unary" -> AstExprs(a.right)
      [] a.e = "Block" -> AstExprsOf(a.exprs, 1)
      [] a.e = "If" -> AstExprs(a.cond) \o AstExprs(a.then) \o AstExprsOf(a.els, 1)
      [] a.e = "While" -> AstExprs(a.cond) \o AstExprs(a.body)
      [] a.e = "Variable" -> AstExprs(a.value)
      [] a.e = "Call" -> AstExprs(a.callee) \o AstExprsOf(a.args, 1)
      [] OTHER -> <<>>

\* The names the `val` and `var` expressions among as declare.
DeclaredIn(as) ==
    LET decls == SelectSeq(as, LAMBDA a : a.e = "Variable") IN
    [n \in 1..Len(decls) |-> decls[n].name.lex]

\* ExprCompiler::new(func) and expr(a) in module m, as pass 4 calls them.
CompiledIn(m, func, a) ==
    ExprCompiler_expr(a, ExprCompiler_new(func),
                      [module |-> m, funcs |-> compilers[m].module.funcs,
                       params |-> func.params])

\* r is what expr() made of the body of func: the stack is the parameter
\* environment alone, as new() built it; every `val` and `var` of the
\* body has its VarStore in locals; and no name resolves to a local.
BodyLeavesStack(func, r) ==
    r.st.panic = "" =>
        /\ r.st.environments = ExprCompiler_new(func).environments
        /\ [n \in 1..Len(r.st.locals) |-> r.st.locals[n].index] = [n \in 1..Len(r.st.locals) |-> n - 1]
        /\ Len(r.st.locals) = Len(DeclaredIn(AstExprs(func.ast.body[1])))
        /\ {r.st.locals[n].name : n \in 1..Len(r.st.locals)}
              = {DeclaredIn(AstExprs(func.ast.body[1]))[n] :
                    n \in 1..Len(DeclaredIn(AstExprs(func.ast.body[1])))}
        /\ \A n \in 1..Len(r.st.locals) :
              \/ ExprCompiler_find_local(r.st, r.st.locals[n].name) = <<>>
              \/ ExprCompiler_find_local(r.st, r.st.locals[n].name)[1].vec = "params"

\* r is what expr() made of a subexpression: the stack has the depth it
\* had, with the parameter environment at the bottom; a block leaves
\* the environments as they were.
ExprLeavesStack(func, a, r) ==
    r.st.panic = "" =>
        /\ Len(r.st.environments) = 1
        /\ \A n \in 1..Len(func.params) :
              Environment_get(r.st.environments[1], func.params[n].name) # <<>>
        /\ a.e = "Block" => r.st.environments = ExprCompiler_new(func).environments

\* C27: the environment stack of the expression compiler is balanced:
\* compiling an expression leaves the stack at the depth it had, the
\* parameter environment stays at the bottom, and a variable declared in
\* a block is not resolvable by name after the block, while its VarStore
\* stays in the function's locals.
C27_EnvironmentStackBalanced ==
    pc = "generate_functions" =>
        \A mf \in {x \in Bodies : x[1] = comp} :
            LET subs(func, as) ==
                    \A n \in 1..Len(as) :
                        ExprLeavesStack(func, as[n], CompiledIn(mf[1], func, as[n]))
                body(func) ==
                    /\ BodyLeavesStack(func, CompiledIn(mf[1], func, func.ast.body[1]))
                    /\ subs(func, AstExprs(func.ast.body[1]))
            IN  body(compilers[mf[1]].module.funcs[mf[2]])

\* `fun f(a: i64) { a  val a = true  a  { a  val a = 1.5  a }  a }` is
\* about to be compiled: two locals named a, the parameter a at the bottom.
C27_Witness ==
    /\ pc = "generate_functions" /\ api = "execute_module" /\ files[1] = ScopeSources[1]
    /\ LET two(r) ==
               /\ r.st.panic = "" /\ Len(r.st.locals) = 2
               /\ Len(r.st.environments) = 1
               /\ ExprCompiler_find_local(r.st, "a") = <<[vec |-> "params", pos |-> 1]>>
       IN  two(CompiledIn(1, compilers[1].module.funcs[1],
                          compilers[1].module.funcs[1].ast.body[1]))

\* The number of 512-byte sectors that [position, position + bytes) overlaps.
SectorsOverlapped(position, bytes) ==
    ((position % SectorSize) + bytes + SectorSize - 1) \div SectorSize

\* C28: for every position and every byte count of at least 1,
\* min_required_sector_count(bytes) is the number of 512-byte sectors that
\* the bytes from the position on overlap: ceil(((position mod 512) +
\* bytes) / 512).
C28_SectorCountIsOverlap ==
    drive.at = "counted" =>
        /\ drive.panic = ""
        /\ drive.count = SectorsOverlapped(drive.self.position, drive.bytes)

\* The disk the write has to leave: buf in the bytes from..from+len-1,
\* every other byte as it was.
DiskWith(disk, from, len, buf) ==
    [b \in DOMAIN disk |-> IF b >= from /\ b < from + len THEN buf[b - from] ELSE disk[b]]

\* C29: write(buf) at position p sets the disk bytes p .. p + len(buf) - 1
\* to buf and leaves every other byte unchanged, for aligned and
\* unaligned, even and odd p and len; it advances the position by
\* len(buf), and seeking back by len(buf) and reading len(buf) bytes
\* returns buf.
C29_WriteSetsItsBytesOnly ==
    /\ drive.at = "written" =>
          /\ drive.panic = ""
          /\ drive.disk = DiskWith(Actual, drive.from, drive.len,
                                   Buffer(drive.len, drive.fill))
          /\ drive.self.position = drive.from + drive.len
    /\ drive.at = "back" => drive.self.position = drive.from
    /\ drive.at = "read" =>
          /\ drive.verify_buf = Buffer(drive.len, drive.fill)
          /\ drive.self.position = drive.from + drive.len

\* C30: after any sequence of key presses (characters, backspace, left and
\* right arrows, enter) 0 <= cursor_pos <= length of current_command, so
\* that backspace and insertion never index outside the command and
\* cursor_pos never underflows.
C30_CursorInsideCommand ==
    shell.at = "shell" =>
        /\ shell.panic = ""
        /\ shell.self.cursor_pos >= 0
        /\ shell.self.cursor_pos <= Len(shell.self.current_command)

====
